---- MODULE Spec2Model ----
(***************************************************************************)
(* A model of wsdd (src/wsdd.py), the Web Service Discovery daemon:        *)
(*   - the SOAP-over-UDP retransmission scheduler (schedule_datagram),     *)
(*   - the WSD message engine with its duplicate window, the host role     *)
(*     and the client role (handle_message and the action handlers),       *)
(*   - the address monitor that creates and tears down the per-address     *)
(*     multicast endpoints (MulticastHandler, "MEP") and their roles.      *)
(* Three specifications share the definitions: SpecSched, SpecMsg and      *)
(* SpecMon.                                                                *)
(***************************************************************************)
EXTENDS Integers, Sequences, FiniteSets, TLC

(***************************************************************************)
(* Program constants (src/wsdd.py:229-268).                                *)
(***************************************************************************)
WSD_MAX_KNOWN_MESSAGES == 10
MULTICAST_UDP_REPEAT == 4
UNICAST_UDP_REPEAT == 2
UDP_MIN_DELAY == 50
UDP_MAX_DELAY == 250
UDP_UPPER_DELAY == 500
PROBE_TIMEOUT == 4
WSD_UDP_PORT == 3702

WSD_TYPE_DEVICE == "wsdp:Device"
PUB_COMPUTER == "pub:Computer"
WSD_TYPE_DEVICE_COMPUTER == "wsdp:Device pub:Computer"
WSA_ANON == "http://schemas.xmlsoap.org/ws/2004/08/addressing/role/anonymous"
WSA_DISCOVERY == "urn:schemas-xmlsoap-org:ws:2005:04:discovery"
WSD_MCAST_GRP_V4 == "239.255.255.250"
WSD_MCAST_GRP_V6 == "ff02::c"

AF_INET == "AF_INET"
AF_INET6 == "AF_INET6"

Min(a, b) == IF a <= b THEN a ELSE b

(***************************************************************************)
(* Addresses.  A socket address is the tuple Python's socket module uses,  *)
(* written as a record: (host, port) for IPv4, with flow and scope 0, and  *)
(* (host, port, flowinfo, scope_id) for IPv6.                              *)
(***************************************************************************)
SockAddr(h, p, f, s) == [host |-> h, port |-> p, flow |-> f, scope |-> s]

\* address=None, the default of enqueue_datagram
NoAddress == SockAddr("None", 0, 0, 0)

\* MulticastHandler.init_v4 / init_v6: self.multicast_address
\* (0x575C = 22364)
MulticastAddress(family, idx) ==
    IF family = AF_INET
    THEN SockAddr(WSD_MCAST_GRP_V4, WSD_UDP_PORT, 0, 0)
    ELSE SockAddr(WSD_MCAST_GRP_V6, WSD_UDP_PORT, 22364, idx)

\* Source addresses of datagrams a peer can send (recvfrom's second value).
PeerAddresses ==
    { SockAddr("10.0.0.2", 3702, 0, 0), SockAddr("10.0.0.3", 49152, 0, 0),
      SockAddr("fe80::2", 3702, 0, 2) }

(***************************************************************************)
(* The SOAP-over-UDP scheduler.                                            *)
(***************************************************************************)
\* schedule_datagram: msg_count
MsgCountSwapped(address, multicast_address) ==
    IF address = multicast_address THEN UNICAST_UDP_REPEAT ELSE MULTICAST_UDP_REPEAT

MsgCount(address, multicast_address) ==
    IF address = multicast_address THEN MULTICAST_UDP_REPEAT ELSE UNICAST_UDP_REPEAT

\* schedule_datagram: delta = min(delta * 2, UDP_UPPER_DELAY)
NextDeltaUnclamped(delta) == delta * 2

NextDelta(delta) == Min(delta * 2, UDP_UPPER_DELAY)

\* schedule_datagram: delta = random.randint(UDP_MIN_DELAY, UDP_MAX_DELAY)
InitialDeltas == UDP_MIN_DELAY .. UDP_MAX_DELAY

\* enqueue_datagram: "if not address: address = self.mch.multicast_address"
EnqueueAddress(address, multicast_address) ==
    IF address = NoAddress THEN multicast_address ELSE address

\* send_datagram: "except Exception" swallows a failing mch.send, so the
\* coroutine that called it never sees the error.
SendDatagramPropagates(ok) == ~ok

SendDatagramRaises(ok) == FALSE

VARIABLES
    s_pc,        \* position of the schedule_datagram coroutine
    s_mcast,     \* self.mch.multicast_address
    s_address,   \* the address argument
    s_count,     \* msg_count
    s_delta,     \* delta
    s_i,         \* loop index i
    s_attempts,  \* send_datagram calls made for this message
    s_failed,    \* those whose mch.send raised
    s_delays     \* the delays slept so far (ms)

schedVars == <<s_pc, s_mcast, s_address, s_count, s_delta, s_i, s_attempts,
               s_failed, s_delays>>

(***************************************************************************)
(* Bounds of the model.                                                    *)
(***************************************************************************)
\* distinct inbound MessageIDs and datagrams delivered, duplicate-window runs
MaxIds == 12
MaxRecv == 13
\* the same, runs over the protocol's message shapes
MaxProtoIds == 2
MaxProtoRecv == 2
\* the same, runs over the announcements the client's registry follows
MaxRegIds == 3
MaxRegRecv == 3
\* probes the client sends after its initial one, and the clock's range
MaxProbes == 1
MaxTime == 9
\* endpoints the monitor creates, and datagrams its endpoints receive
MaxMeps == 2
MaxMonRecv == 2

(***************************************************************************)
(* Configuration (parse_args): the options the core reads.                 *)
(***************************************************************************)
Args(no_host, no_http, discovery, no_autostart) ==
    [no_host |-> no_host, no_http |-> no_http, discovery |-> discovery,
     no_autostart |-> no_autostart, ipv4only |-> FALSE, ipv6only |-> FALSE,
     interface |-> {}]

\* the same with --ipv4only, --ipv6only and the --interface list
Filtered(a, ipv4only, ipv6only, interface) ==
    [a EXCEPT !.ipv4only = ipv4only, !.ipv6only = ipv6only, !.interface = interface]

\* args.uuid.urn, str(args.uuid)
OwnUuid == "11111111-2222-3333-4444-555555555555"
OwnUrn == "urn:uuid:11111111-2222-3333-4444-555555555555"
\* wsd_instance_id = int(time.time()), set once when the module is loaded
wsd_instance_id == 1700000000

(***************************************************************************)
(* Inbound messages: what ETfromString and the find/findtext calls of the  *)
(* handlers see.  msg_id and relates_to are 0 when the tag is missing;     *)
(* string fields are Absent when the element is missing.  The text of      *)
(* wsd:XAddrs is a sequence of tokens, " " standing for whitespace.        *)
(***************************************************************************)
Absent == "<absent>"
\* the text of an element that is present and empty (ElementTree gives None)
NoText == "<none>"
NoId == 0
ForeignId == 99
\* MessageIDs this process generates (uuid.uuid1().urn) are OwnIdBase + n
OwnIdBase == 100

WSD_PROBE == "http://schemas.xmlsoap.org/ws/2005/04/discovery/Probe"
WSD_PROBE_MATCH == "http://schemas.xmlsoap.org/ws/2005/04/discovery/ProbeMatches"
WSD_RESOLVE == "http://schemas.xmlsoap.org/ws/2005/04/discovery/Resolve"
WSD_RESOLVE_MATCH == "http://schemas.xmlsoap.org/ws/2005/04/discovery/ResolveMatches"
WSD_HELLO == "http://schemas.xmlsoap.org/ws/2005/04/discovery/Hello"
WSD_BYE == "http://schemas.xmlsoap.org/ws/2005/04/discovery/Bye"
WSD_GET == "http://schemas.xmlsoap.org/ws/2004/09/transfer/Get"
WSD_GET_RESPONSE == "http://schemas.xmlsoap.org/ws/2004/09/transfer/GetResponse"

InMsg(id, action) ==
    [wellformed |-> TRUE, header |-> TRUE, msg_id |-> id, action |-> action,
     relates_to |-> NoId, body |-> TRUE, elem |-> TRUE, scopes |-> Absent,
     types |-> Absent, endpoint |-> Absent, has_xaddrs |-> FALSE, xaddrs |-> <<>>]

PeerUuid == "22222222-aaaa-3333-4444-555555555555"
PeerUrn == "urn:uuid:22222222-aaaa-3333-4444-555555555555"
Url1 == "http://10.0.0.2:5357/22222222-aaaa-3333-4444-555555555555"
Url2 == "http://[fe80::2]:5357/22222222-aaaa-3333-4444-555555555555"
UrlBad == "ftp://10.0.0.2/x"

\* str.startswith('http://') or str.startswith('https://') on a token
IsHttpUrl(tok) == tok \in {Url1, Url2}
\* "'//[fe80::' in addr"
IsLinkLocalUrl(tok) == tok = Url2
\* urllib.parse.urlparse(xaddr).netloc.rpartition(':')[0]
UrlHost(tok) == IF tok = Url1 THEN "10.0.0.2" ELSE IF tok = Url2 THEN "[fe80::2]" ELSE ""

\* other spellings of the peer's endpoint address, and another peer
PeerUrnUpper == "urn:uuid:22222222-AAAA-3333-4444-555555555555"
PeerUuidUpper == "22222222-AAAA-3333-4444-555555555555"
PeerBraced == "{22222222-aaaa-3333-4444-555555555555}"
PeerUpperPrefix == "URN:UUID:22222222-aaaa-3333-4444-555555555555"
OtherUuid == "33333333-bbbb-3333-4444-555555555555"
OtherUrn == "urn:uuid:33333333-bbbb-3333-4444-555555555555"
NotAUuid == "urn:uuid:2222"

\* The characters of the endpoint texts: Run(c, n) is c repeated n times,
\* Groups the five groups of a UUID joined by hyphens.
Run(c, n) == [k \in 1 .. n |-> c]
Groups(g1, g2, g3, g4, g5) ==
    Run(g1, 8) \o <<"-">> \o Run(g2, 4) \o <<"-">> \o Run(g3, 4) \o <<"-">>
    \o Run(g4, 4) \o <<"-">> \o Run(g5, 12)
UrnPrefix == <<"u", "r", "n", ":">>
UuidPrefix == <<"u", "u", "i", "d", ":">>
Spelling ==
    (OwnUuid :> Groups("1", "2", "3", "4", "5"))
    @@ (OwnUrn :> UrnPrefix \o UuidPrefix \o Groups("1", "2", "3", "4", "5"))
    @@ (PeerUuid :> Groups("2", "a", "3", "4", "5"))
    @@ (PeerUrn :> UrnPrefix \o UuidPrefix \o Groups("2", "a", "3", "4", "5"))
    @@ (PeerUuidUpper :> Groups("2", "A", "3", "4", "5"))
    @@ (PeerUrnUpper :> UrnPrefix \o UuidPrefix \o Groups("2", "A", "3", "4", "5"))
    @@ (PeerBraced :> <<"{">> \o Groups("2", "a", "3", "4", "5") \o <<"}">>)
    @@ (PeerUpperPrefix :> <<"U", "R", "N", ":", "U", "U", "I", "D", ":">>
                           \o Groups("2", "a", "3", "4", "5"))
    @@ (OtherUuid :> Groups("3", "b", "3", "4", "5"))
    @@ (OtherUrn :> UrnPrefix \o UuidPrefix \o Groups("3", "b", "3", "4", "5"))
    @@ (NotAUuid :> UrnPrefix \o UuidPrefix \o Run("2", 4))
    @@ ("" :> <<>>)
Chars(text) == Spelling[text]
\* the text with these characters
Text(chars) == CHOOSE t \in DOMAIN Spelling : Spelling[t] = chars

\* str.replace(pat, '')
RECURSIVE Remove(_, _)
Remove(chars, pat) ==
    IF chars = <<>> THEN <<>>
    ELSE IF Len(chars) >= Len(pat) /\ SubSeq(chars, 1, Len(pat)) = pat
    THEN Remove(SubSeq(chars, Len(pat) + 1, Len(chars)), pat)
    ELSE <<Head(chars)>> \o Remove(Tail(chars), pat)

\* str.strip('{}')
RECURSIVE StripBraces(_)
StripBraces(chars) ==
    IF chars # <<>> /\ Head(chars) \in {"{", "}"} THEN StripBraces(Tail(chars))
    ELSE IF chars # <<>> /\ chars[Len(chars)] \in {"{", "}"}
    THEN StripBraces(SubSeq(chars, 1, Len(chars) - 1))
    ELSE chars

HexDigits ==
    {"0", "1", "2", "3", "4", "5", "6", "7", "8", "9",
     "a", "b", "c", "d", "e", "f", "A", "B", "C", "D", "E", "F"}

\* a hexadecimal digit as '%032x' prints it
LowerKeepsCase(c) == c

Lower(c) ==
    CASE c = "A" -> "a" [] c = "B" -> "b" [] c = "C" -> "c"
      [] c = "D" -> "d" [] c = "E" -> "e" [] c = "F" -> "f" [] OTHER -> c

\* uuid.UUID(hex): hex.replace('urn:', '').replace('uuid:', ''), then
\* hex.strip('{}').replace('-', '')
UuidHex(text) ==
    Remove(StripBraces(Remove(Remove(Chars(text), UrnPrefix), UuidPrefix)), <<"-">>)

\* UUID.__str__: the 32 digits in lower case, hyphenated 8-4-4-4-12
UuidStr(hex) ==
    LET low == [k \in 1 .. 32 |-> Lower(hex[k])]
    IN SubSeq(low, 1, 8) \o <<"-">> \o SubSeq(low, 9, 12) \o <<"-">>
       \o SubSeq(low, 13, 16) \o <<"-">> \o SubSeq(low, 17, 20) \o <<"-">>
       \o SubSeq(low, 21, 32)

\* uuid.UUID(text) for each text: whether it succeeds (no ValueError for a
\* length other than 32 or a character int(hex, 16) rejects) and the str()
\* of the result
UuidOf ==
    [t \in DOMAIN Spelling |->
        LET hex == UuidHex(t)
        IN IF Len(hex) = 32 /\ \A k \in 1 .. 32 : hex[k] \in HexDigits
           THEN [valid |-> TRUE, str |-> Text(UuidStr(hex))]
           ELSE [valid |-> FALSE, str |-> ""]]

\* uuid.UUID(endpoint) succeeds (a TypeError is raised for None)
UuidValid(endpoint) == endpoint # Absent /\ UuidOf[endpoint].valid

\* str(uuid.UUID(endpoint))
UuidCanon(endpoint) == UuidOf[endpoint].str

RECURSIVE LStrip(_)
LStrip(t) == IF t # <<>> /\ Head(t) = " " THEN LStrip(Tail(t)) ELSE t
RECURSIVE RStrip(_)
RStrip(t) ==
    IF t # <<>> /\ t[Len(t)] = " " THEN RStrip(SubSeq(t, 1, Len(t) - 1)) ELSE t
\* str.strip()
Strip(t) == LStrip(RStrip(t))

(***************************************************************************)
(* The duplicate window: WSDMessageHandler.known_messages.                 *)
(***************************************************************************)
\* collections.deque([], WSD_MAX_KNOWN_MESSAGES).append
DequeAppendUnbounded(q, x) == Append(q, x)

DequeAppend(q, x) ==
    IF Len(q) < WSD_MAX_KNOWN_MESSAGES THEN Append(q, x) ELSE Append(Tail(q), x)

\* "msg_id in type(self).known_messages"
IsKnownNever(msg_id, known) == FALSE

IsKnown(msg_id, known) == \E k \in 1 .. Len(known) : known[k] = msg_id

(***************************************************************************)
(* Outbound messages: build_message_tree.  E is the engine's state while   *)
(* one datagram or command is handled:                                     *)
(*   known   WSDMessageHandler.known_messages                              *)
(*   msgnum  WSDHost.message_number                                        *)
(*   uuid    number of MessageIDs generated so far                         *)
(*   disp    action handlers invoked: <<role, action, MessageID>>          *)
(*   enq     enqueue_datagram calls: message, address, msg_count           *)
(*   fetch   metadata exchanges started: endpoint, url                     *)
(*   evicted MessageIDs pushed out of the window                           *)
(*   registry WSDDiscoveredDevice.instances                                *)
(*   raised  an exception left the handler and ended the dispatch          *)
(*   calls   roles whose handle_request was called for the datagram        *)
(***************************************************************************)
Engine(known, msgnum, uuid, registry) ==
    [known |-> known, msgnum |-> msgnum, uuid |-> uuid, disp |-> <<>>,
     enq |-> <<>>, fetch |-> <<>>, evicted |-> <<>>, registry |-> registry,
     raised |-> FALSE, calls |-> <<>>]

NoAppSeq == -1

\* WSDHost.add_header_elements: the MessageNumber written is the counter's
\* value before "type(self).message_number += 1"
NextMessageNumberStuck(n) == n

NextMessageNumber(n) == n + 1

\* build_message_tree(to_addr, action_str, request_header, body) for a role;
\* req_id is the request's MessageID (NoId when request_header is None).
BuiltMessage(E, role, to_addr, action, req_id, body) ==
    [to |-> to_addr, action |-> action, msg_id |-> OwnIdBase + E.uuid + 1,
     relates_to |-> req_id,
     instance_id |-> IF role = "host" THEN wsd_instance_id ELSE NoAppSeq,
     message_number |-> IF role = "host" THEN E.msgnum ELSE NoAppSeq,
     body |-> body]

AfterBuild(E, role) ==
    [E EXCEPT !.uuid = @ + 1,
              !.msgnum = IF role = "host" THEN NextMessageNumber(@) ELSE @]

\* enqueue_datagram(msg, address): the scheduling task's message, its
\* destination and the number of sends schedule_datagram will make
Enqueued(msg, address, multicast_address) ==
    [msg |-> msg, address |-> EnqueueAddress(address, multicast_address),
     msg_count |-> MsgCount(EnqueueAddress(address, multicast_address),
                            multicast_address)]

Body(kind, endpoint, types, xaddrs) ==
    [kind |-> kind, endpoint |-> endpoint, types |-> types, xaddrs |-> xaddrs]


(***************************************************************************)
(* A role's view of its endpoint (self.mch) and of itself.                 *)
(***************************************************************************)
Ctx(mch, family, address, iface, probes, now) ==
    [mch |-> mch, family |-> family, address |-> address, iface |-> iface,
     multicast_address |-> MulticastAddress(family, 2),
     probes |-> probes, now |-> now]

NoRetval == [some |-> FALSE, body |-> Body("", Absent, Absent, <<>>), action |-> ""]
Retval(body, action) == [some |-> TRUE, body |-> body, action |-> action]

\* MulticastHandler.transport_address and add_xaddr's URL, as tokens
HostXAddrs(ctx) ==
    IF ctx.family = AF_INET
    THEN <<"http://", ctx.address, ":5357/", OwnUuid>>
    ELSE <<"http://", "[", ctx.address, "]", ":5357/", OwnUuid>>

(***************************************************************************)
(* Host role: WSDHost.                                                     *)
(***************************************************************************)
\* "if scopes:" tests an Element, which is true iff it has child elements
ScopesTruthyIfPresent(scopes) == scopes # Absent

ScopesTruthy(scopes) == scopes = "children"

\* "if not types == WSD_TYPE_DEVICE"
TypesAcceptedPrefix(types) == types \in {WSD_TYPE_DEVICE, WSD_TYPE_DEVICE_COMPUTER}

TypesAccepted(types) == types = WSD_TYPE_DEVICE

\* WSDHost.handle_probe(header, body)
HandleProbe(msg) ==
    IF ~msg.elem THEN NoRetval
    ELSE IF ScopesTruthy(msg.scopes) THEN NoRetval
    ELSE IF msg.types = Absent THEN NoRetval
    ELSE IF ~TypesAccepted(msg.types) THEN NoRetval
    ELSE Retval(Body("ProbeMatches", OwnUrn, WSD_TYPE_DEVICE_COMPUTER, <<>>),
                WSD_PROBE_MATCH)

\* WSDHost.handle_resolve(header, body)
HandleResolveAnyAddress(msg, ctx) ==
    IF ~msg.elem THEN NoRetval
    ELSE IF msg.endpoint = Absent THEN NoRetval
    ELSE Retval(Body("ResolveMatches", OwnUrn, WSD_TYPE_DEVICE_COMPUTER,
                     HostXAddrs(ctx)), WSD_RESOLVE_MATCH)

HandleResolve(msg, ctx) ==
    IF ~msg.elem THEN NoRetval
    ELSE IF msg.endpoint = Absent THEN NoRetval
    ELSE IF msg.endpoint # OwnUrn THEN NoRetval
    ELSE Retval(Body("ResolveMatches", OwnUrn, WSD_TYPE_DEVICE_COMPUTER,
                     HostXAddrs(ctx)), WSD_RESOLVE_MATCH)

\* WSDHost.send_hello: build_message(WSA_DISCOVERY, WSD_HELLO, None, hello),
\* enqueue_datagram(msg)
HostSendHello(E, ctx) ==
    LET m == BuiltMessage(E, "host", WSA_DISCOVERY, WSD_HELLO, NoId,
                          Body("Hello", OwnUrn, Absent, HostXAddrs(ctx)))
    IN [AfterBuild(E, "host") EXCEPT
          !.enq = Append(@, Enqueued(m, NoAddress, ctx.multicast_address))]

\* WSDHost.send_bye
HostSendBye(E, ctx) ==
    LET m == BuiltMessage(E, "host", WSA_DISCOVERY, WSD_BYE, NoId,
                          Body("Bye", OwnUrn, Absent, <<>>))
    IN [AfterBuild(E, "host") EXCEPT
          !.enq = Append(@, Enqueued(m, NoAddress, ctx.multicast_address))]

(***************************************************************************)
(* Client role: WSDClient.                                                 *)
(***************************************************************************)
\* remove_outdated_probes: keep the entries with x[1] > time.time() - 8
RemoveOutdatedProbes(probes, now) ==
    [i \in { j \in DOMAIN probes : probes[j] > now - PROBE_TIMEOUT * 2 } |-> probes[i]]

\* extract_endpoint_metadata(body, prefix): findtext gives None when the
\* path does not match
Endpoint(msg) == IF msg.elem THEN msg.endpoint ELSE Absent
HasXAddrs(msg) == msg.elem /\ msg.has_xaddrs
\* "if not xaddrs": None or the empty string
NotXAddrsNever(msg) == FALSE

NotXAddrs(msg) == ~HasXAddrs(msg) \/ msg.xaddrs = <<>>

\* build_resolve_message(endpoint) with add_endpoint_reference: a missing
\* endpoint is replaced by the own URN
ClientSendResolve(E, ctx, endpoint) ==
    LET m == BuiltMessage(E, "client", WSA_DISCOVERY, WSD_RESOLVE, NoId,
                 Body("Resolve", IF endpoint = Absent THEN OwnUrn ELSE endpoint,
                      Absent, <<>>))
    IN [AfterBuild(E, "client") EXCEPT
          !.enq = Append(@, Enqueued(m, NoAddress, ctx.multicast_address))]

\* A discovered device: WSDDiscoveredDevice (last_seen is NoTime while None)
NoTime == -1
NewDevice == [last_seen |-> NoTime, addresses |-> {}]

\* WSDDiscoveredDevice.update(xml_str, xaddr, interface): a response that
\* does not parse returns before anything is recorded
DeviceUpdate(dev, resp, xaddr, ctx) ==
    IF resp = "unparsable" THEN dev
    ELSE [last_seen |-> ctx.now,
          addresses |-> dev.addresses \cup {<<ctx.mch, UrlHost(Head(xaddr))>>}]

\* WSDClient.handle_metadata(meta, endpoint, xaddr)
HandleMetadata(E, ctx, resp, endpoint, xaddr) ==
    IF ~UuidValid(endpoint) THEN [E EXCEPT !.raised = TRUE]
    ELSE LET k == UuidCanon(endpoint)
             old == IF k \in DOMAIN E.registry THEN E.registry[k] ELSE NewDevice
         IN [E EXCEPT !.registry =
                [u \in DOMAIN E.registry \cup {k} |->
                    IF u = k THEN DeviceUpdate(old, resp, xaddr, ctx)
                    ELSE E.registry[u]]]

\* perform_metadata_exchange(endpoint, xaddr): the scheme test, the Get
\* message, the HTTP POST (recorded in fetch) and its outcome resp:
\* "urlerror" (caught), "exception" (any other error, not caught),
\* "unparsable" or "metadata" (a response body)
PerformMetadataExchange(E, ctx, endpoint, xaddr, resp) ==
    IF xaddr = <<>> \/ ~IsHttpUrl(Head(xaddr)) THEN E
    ELSE LET E1 == [AfterBuild(E, "client") EXCEPT
                      !.fetch = Append(@, [endpoint |-> endpoint, xaddr |-> xaddr,
                                           zone |-> IF ctx.family = AF_INET6
                                                    THEN ctx.iface ELSE Absent])]
         IN IF resp = "urlerror" THEN E1
            ELSE IF resp = "exception" THEN [E1 EXCEPT !.raised = TRUE]
            ELSE HandleMetadata(E1, ctx, resp, endpoint, xaddr)

\* "if rel_msg not in self.probes"
ProbeKnownAlways(rel_msg, probes) == TRUE

ProbeKnown(rel_msg, probes) == rel_msg \in DOMAIN probes

\* WSDClient.handle_probe_match(header, body)
HandleProbeMatch(E, ctx, msg, resp) ==
    IF ~ProbeKnown(msg.relates_to, ctx.probes) THEN E
    ELSE IF NotXAddrs(msg) THEN ClientSendResolve(E, ctx, Endpoint(msg))
    ELSE PerformMetadataExchange(E, ctx, Endpoint(msg), Strip(msg.xaddrs), resp)

\* str.split(): the tokens that are not whitespace
RECURSIVE Split(_)
Split(t) ==
    IF t = <<>> THEN <<>>
    ELSE IF Head(t) = " " THEN Split(Tail(t))
    ELSE <<Head(t)>> \o Split(Tail(t))

\* handle_hello's loop over xaddrs.strip().split(): the first link-local
\* URL for IPv6, the first URL for IPv4; <<>> stands for None
RECURSIVE SelectHelloXAddr(_, _)
SelectHelloXAddr(family, toks) ==
    IF toks = <<>> THEN <<>>
    ELSE IF family = AF_INET6 /\ IsLinkLocalUrl(Head(toks)) THEN <<Head(toks)>>
    ELSE IF family = AF_INET THEN <<Head(toks)>>
    ELSE SelectHelloXAddr(family, Tail(toks))

\* WSDClient.handle_hello(header, body)
HandleHello(E, ctx, msg, resp) ==
    IF NotXAddrs(msg) THEN ClientSendResolve(E, ctx, Endpoint(msg))
    ELSE LET xaddr == SelectHelloXAddr(ctx.family, Split(Strip(msg.xaddrs)))
         IN IF xaddr = <<>> THEN E
            ELSE PerformMetadataExchange(E, ctx, Endpoint(msg), xaddr, resp)

\* WSDClient.handle_resolve_match(header, body)
HandleResolveMatchGated(E, ctx, msg, resp) ==
    IF ~ProbeKnown(msg.relates_to, ctx.probes) THEN E
    ELSE IF Endpoint(msg) \in {Absent, ""} \/ NotXAddrs(msg) THEN E
    ELSE PerformMetadataExchange(E, ctx, Endpoint(msg), Strip(msg.xaddrs), resp)

HandleResolveMatch(E, ctx, msg, resp) ==
    IF Endpoint(msg) \in {Absent, ""} \/ NotXAddrs(msg) THEN E
    ELSE PerformMetadataExchange(E, ctx, Endpoint(msg), Strip(msg.xaddrs), resp)

\* WSDClient.handle_bye(header, body)
HandleByeKeepsDevice(E, msg) ==
    IF ~UuidValid(Endpoint(msg)) THEN [E EXCEPT !.raised = TRUE] ELSE E

HandleByeClearsOnError(E, msg) ==
    IF ~UuidValid(Endpoint(msg)) THEN [E EXCEPT !.raised = TRUE, !.registry = <<>>]
    ELSE [E EXCEPT !.registry =
            [u \in DOMAIN E.registry \ {UuidCanon(Endpoint(msg))} |-> E.registry[u]]]

HandleBye(E, msg) ==
    IF ~UuidValid(Endpoint(msg)) THEN [E EXCEPT !.raised = TRUE]
    ELSE [E EXCEPT !.registry =
            [u \in DOMAIN E.registry \ {UuidCanon(Endpoint(msg))} |-> E.registry[u]]]

\* WSDClient.send_probe without its probes bookkeeping: the Probe is built
\* and enqueued to the multicast address
ClientSendProbe(E, ctx) ==
    LET m == BuiltMessage(E, "client", WSA_DISCOVERY, WSD_PROBE, NoId,
                          Body("Probe", Absent, WSD_TYPE_DEVICE, <<>>))
    IN [AfterBuild(E, "client") EXCEPT
          !.enq = Append(@, Enqueued(m, NoAddress, ctx.multicast_address))]

(***************************************************************************)
(* WSDMessageHandler.handle_message and the roles' handle_request.         *)
(***************************************************************************)
Handlers(role) ==
    IF role = "host" THEN {WSD_PROBE, WSD_RESOLVE}
    ELSE IF role = "client"
         THEN {WSD_HELLO, WSD_BYE, WSD_PROBE_MATCH, WSD_RESOLVE_MATCH}
    ELSE {WSD_GET}

\* is_duplicated_msg's append, with the MessageID it pushes out
Remember(E, msg_id) ==
    [E EXCEPT !.known = DequeAppend(@, msg_id),
              !.evicted = IF Len(E.known) < WSD_MAX_KNOWN_MESSAGES
                          THEN @ ELSE Append(@, Head(E.known))]

\* is_duplicated_msg(msg_id): whether the MessageID is known, and the engine
\* state after it (a MessageID that is not known is appended)
IsDuplicatedMsgAppendOnly(E, msg_id) ==
    [dup |-> FALSE, E |-> Remember(E, msg_id)]

IsDuplicatedMsg(E, msg_id) ==
    IF IsKnown(msg_id, E.known)
    THEN [dup |-> TRUE, E |-> E]
    ELSE [dup |-> FALSE, E |-> Remember(E, msg_id)]

\* "if mch and self.is_duplicated_msg(msg_id)": the test is skipped, and
\* nothing is remembered, for a message that came without an endpoint
DuplicateCheckAlways(E, msg_id, viaMch) == IsDuplicatedMsg(E, msg_id)

DuplicateCheck(E, msg_id, viaMch) ==
    IF viaMch THEN IsDuplicatedMsg(E, msg_id) ELSE [dup |-> FALSE, E |-> E]

\* WSDHttpMessageHandler.handle_get(header, body): the metadata document
HandleGet == Retval(Body("Metadata", OwnUrn, PUB_COMPUTER, <<>>), WSD_GET_RESPONSE)

\* the handler call "retval = handler(header, body)" of a role: the engine
\* state after it and what it returned
RunHandler(E, role, ctx, msg, resp) ==
    LET E1 == [E EXCEPT !.disp = Append(@, <<role, msg.action, msg.msg_id>>)]
    IN IF role = "host" /\ msg.action = WSD_PROBE
          THEN [E |-> E1, ret |-> HandleProbe(msg)]
       ELSE IF role = "host" /\ msg.action = WSD_RESOLVE
          THEN [E |-> E1, ret |-> HandleResolve(msg, ctx)]
       ELSE IF role = "client" /\ msg.action = WSD_PROBE_MATCH
          THEN [E |-> HandleProbeMatch(E1, ctx, msg, resp), ret |-> NoRetval]
       ELSE IF role = "client" /\ msg.action = WSD_HELLO
          THEN [E |-> HandleHello(E1, ctx, msg, resp), ret |-> NoRetval]
       ELSE IF role = "client" /\ msg.action = WSD_RESOLVE_MATCH
          THEN [E |-> HandleResolveMatch(E1, ctx, msg, resp), ret |-> NoRetval]
       ELSE IF role = "client" /\ msg.action = WSD_BYE
          THEN [E |-> HandleBye(E1, msg), ret |-> NoRetval]
       ELSE IF role = "http" /\ msg.action = WSD_GET
          THEN [E |-> E1, ret |-> HandleGet]
       ELSE [E |-> E1, ret |-> NoRetval]

\* handle_message(msg, mch, src_address): the engine state after it and the
\* reply it returns (a built message, or None)
\* "if retval is not None: ... return self.build_message(...)" on what the
\* handler returned; an exception the handler raised leaves no reply
Returned(r) == [E |-> r.E, some |-> r.ret.some /\ ~r.E.raised, reply |-> r.ret]

\* handle_message past the duplicate test, d being that test's outcome;
\* "action.rpartition('/')" raises for an Action element without text
ActionTextMissing(msg) == msg.action = NoText

Handled(d, role, ctx, msg, resp) ==
    IF d.dup THEN [E |-> d.E, some |-> FALSE, reply |-> NoRetval]
    ELSE IF ActionTextMissing(msg)
    THEN [E |-> [d.E EXCEPT !.raised = TRUE], some |-> FALSE, reply |-> NoRetval]
    ELSE IF msg.action = Absent \/ ~msg.body \/ msg.action \notin Handlers(role)
    THEN [E |-> d.E, some |-> FALSE, reply |-> NoRetval]
    ELSE Returned(RunHandler(d.E, role, ctx, msg, resp))

HandleMessageNoHeaderTest(E, role, ctx, msg, viaMch, resp) ==
    IF ~msg.wellformed \/ msg.msg_id = NoId
    THEN [E |-> E, some |-> FALSE, reply |-> NoRetval]
    ELSE Handled(DuplicateCheck(E, msg.msg_id, viaMch), role, ctx, msg, resp)

HandleMessage(E, role, ctx, msg, viaMch, resp) ==
    IF ~msg.wellformed \/ ~msg.header \/ msg.msg_id = NoId
    THEN [E |-> E, some |-> FALSE, reply |-> NoRetval]
    ELSE Handled(DuplicateCheck(E, msg.msg_id, viaMch), role, ctx, msg, resp)

\* the reply handle_message builds: build_message(WSA_ANON, response_type,
\* header, response); RelatesTo is the request's MessageID
ReplyRelatesToNone(msg) == NoId

ReplyRelatesTo(msg) == msg.msg_id

\* WSDHost.handle_request(msg, address)
\* "if reply: self.enqueue_datagram(reply, address=address)" on what
\* handle_message returned
EnqueueReplyToDiscovery(h, ctx, msg, address) ==
    IF ~h.some THEN h.E
    ELSE [AfterBuild(h.E, "host") EXCEPT
            !.enq = Append(@, Enqueued(BuiltMessage(h.E, "host", WSA_DISCOVERY,
                                                    h.reply.action,
                                                    ReplyRelatesTo(msg),
                                                    h.reply.body),
                                       address, ctx.multicast_address))]

EnqueueReply(h, ctx, msg, address) ==
    IF ~h.some THEN h.E
    ELSE [AfterBuild(h.E, "host") EXCEPT
            !.enq = Append(@, Enqueued(BuiltMessage(h.E, "host", WSA_ANON,
                                                    h.reply.action,
                                                    ReplyRelatesTo(msg),
                                                    h.reply.body),
                                       address, ctx.multicast_address))]

HostHandleRequest(E, ctx, msg, address, resp) ==
    EnqueueReply(HandleMessage([E EXCEPT !.calls = Append(@, "host")], "host",
                               ctx, msg, TRUE, resp), ctx, msg, address)

\* WSDClient.handle_request(msg, address)
ClientHandleRequest(E, ctx, msg, address, resp) ==
    HandleMessage([E EXCEPT !.calls = Append(@, "client")], "client", ctx, msg,
                  TRUE, resp).E

\* MulticastHandler.handle_request: "for handler in self.message_handlers[s]";
\* an exception raised by a handler ends the loop
RECURSIVE Dispatch(_, _, _, _, _, _)
Dispatch(handlers, E, ctx, msg, address, resp) ==
    IF handlers = <<>> \/ E.raised THEN E
    ELSE Dispatch(Tail(handlers),
                  IF Head(handlers) = "host"
                  THEN HostHandleRequest(E, ctx, msg, address, resp)
                  ELSE ClientHandleRequest(E, ctx, msg, address, resp),
                  ctx, msg, address, resp)

(***************************************************************************)
(* The HTTP metadata server: WSDHttpRequestHandler.do_POST.  A request is  *)
(* its path and its Content-Type value as sequences of pieces, whether the *)
(* Content-Type and Content-Length headers are present, and the envelope   *)
(* in its body.                                                            *)
(***************************************************************************)
MIME_TYPE_SOAP_XML == "application/soap+xml"
NOT_FOUND == 404
BAD_REQUEST == 400
OK == 200

Request(path, has_ct, ct, has_cl, msg) ==
    [path |-> path, has_ct |-> has_ct, ct |-> ct, has_cl |-> has_cl, msg |-> msg]

\* "self.path != '/' + str(args.uuid)"
PathIsOwnAlways(path) == TRUE

PathIsOwn(path) == path = <<"/", OwnUuid>>

\* "ct is None or not ct.startswith(MIME_TYPE_SOAP_XML)"
ContentTypeInvalidIfMissing(req) == ~req.has_ct

ContentTypeInvalid(req) ==
    ~req.has_ct \/ req.ct = <<>> \/ Head(req.ct) # MIME_TYPE_SOAP_XML

\* do_POST: the statuses written with send_error and send_response, in
\* order, and the engine state after it; send_error does not end the
\* method, and int(None) raises for a missing Content-Length
\* "if response: self.send_response(http.HTTPStatus.OK) ... else:
\* self.send_error(http.HTTPStatus.BAD_REQUEST)" on what handle_message
\* returned, status being the status lines sent before
Respond(h, status) ==
    IF h.some
    THEN [E |-> AfterBuild(h.E, "http"), status |-> Append(status, OK)]
    ELSE [E |-> h.E, status |-> Append(status, BAD_REQUEST)]

DoPost(E, ctx, req) ==
    LET s1 == IF ~PathIsOwn(req.path) THEN <<NOT_FOUND>> ELSE <<>>
        s2 == IF ContentTypeInvalid(req) THEN Append(s1, BAD_REQUEST) ELSE s1
    IN IF ~req.has_cl THEN [E |-> [E EXCEPT !.raised = TRUE], status |-> s2]
       ELSE Respond(HandleMessage(E, "http", ctx, req.msg, FALSE, "urlerror"), s2)

(***************************************************************************)
(* The message engine on one endpoint: the state SpecMsg runs on.          *)
(***************************************************************************)
VARIABLES
    args,             \* the configuration record
    mode,             \* "dedup" or "proto": which inputs the run draws
    m_family,         \* family of the endpoint the roles are attached to
    known_messages,   \* WSDMessageHandler.known_messages
    message_number,   \* WSDHost.message_number
    uuid_ctr,         \* MessageIDs generated by uuid.uuid1() so far
    probes,           \* WSDClient.probes: MessageID -> send time
    registry,         \* WSDDiscoveredDevice.instances
    now,              \* time.time(), in seconds
    fresh,            \* the smallest inbound MessageID not yet delivered
    n_recv,           \* datagrams delivered
    n_probes,         \* probe commands handled
    handled,          \* per inbound MessageID: action handlers invoked
    replied,          \* per inbound MessageID: replies enqueued for it
    sent,             \* the host-role messages built so far, in order
    last              \* what the last step did

msgVars == <<args, mode, m_family, known_messages, message_number, uuid_ctr,
             probes, registry, now, fresh, n_recv, n_probes, handled, replied,
             sent, last>>


VARIABLES
    active,              \* NetworkAddressMonitor.active
    mchs,                \* NetworkAddressMonitor.mchs: endpoints, by object
    http_servers,        \* NetworkAddressMonitor.http_servers, by endpoint
    teardown_tasks,      \* NetworkAddressMonitor.teardown_tasks
    WSDHost_instances,   \* WSDHost.instances, by endpoint
    WSDClient_instances, \* WSDClient.instances, by endpoint
    meps,                \* every MulticastHandler created, with its roles
    tasks,               \* the scheduling tasks recorded in pending_tasks
    added,               \* per address: the endpoint an accepted add left it
                         \* with since the monitor last became active
    ev                   \* the last event the monitor handled

monVars == <<active, mchs, http_servers, teardown_tasks, WSDHost_instances,
             WSDClient_instances, meps, tasks, added, ev>>

otherThanMsg == <<schedVars, monVars>>

HostAttached == ~args.no_host
ClientAttached == args.discovery

\* the address and interface of the endpoint
MepAddress == IF m_family = AF_INET THEN "10.0.0.1" ELSE "fe80::1"
MepCtx == Ctx(1, m_family, MepAddress, "eth0", probes, now)

\* mch.message_handlers[socket]: WSDHost.__init__ registers with the receive
\* socket, WSDClient.__init__ with the multicast-send and the receive socket;
\* handle_new_address creates the host before the client
HandlersOf(sock) ==
    IF sock = "recv_socket"
    THEN (IF HostAttached THEN <<"host">> ELSE <<>>)
         \o (IF ClientAttached THEN <<"client">> ELSE <<>>)
    ELSE IF sock = "mc_send_socket"
    THEN (IF ClientAttached THEN <<"client">> ELSE <<>>)
    ELSE <<>>

Sockets == {"recv_socket", "mc_send_socket", "uc_send_socket"}

IdLimit ==
    IF mode = "dedup" THEN MaxIds
    ELSE IF mode = "registry" THEN MaxRegIds ELSE MaxProtoIds
RecvLimit ==
    IF mode = "dedup" THEN MaxRecv
    ELSE IF mode = "registry" THEN MaxRegRecv ELSE MaxProtoRecv

\* MessageIDs a datagram may carry: one delivered before, or the next new one
InboundIds == 1 .. Min(fresh, IdLimit)

\* RelatesTo values a peer may send: none, a foreign one, the first MessageID
\* this process generated, or that of a probe the client tracks
RelatesToValues == {NoId, ForeignId, OwnIdBase + 1} \cup DOMAIN probes

XAddrsValues ==
    { <<>>, <<Url1>>, <<" ", Url1, " ">>, <<UrlBad>>, <<Url1, " ", Url2>> }

ProbeShapes(id) ==
    { [InMsg(id, WSD_PROBE) EXCEPT !.scopes = sc, !.types = ty] :
        sc \in {Absent, "text", "children"},
        ty \in {Absent, WSD_TYPE_DEVICE, WSD_TYPE_DEVICE_COMPUTER, ""} }
    \cup { [InMsg(id, WSD_PROBE) EXCEPT !.elem = FALSE] }

ResolveShapes(id) ==
    { [InMsg(id, WSD_RESOLVE) EXCEPT !.endpoint = e] :
        e \in {Absent, OwnUrn, OwnUuid, PeerUrn} }
    \cup { [InMsg(id, WSD_RESOLVE) EXCEPT !.elem = FALSE] }

ProbeMatchShapes(id) ==
    { [InMsg(id, WSD_PROBE_MATCH) EXCEPT !.relates_to = r, !.endpoint = PeerUrn,
                                          !.has_xaddrs = TRUE, !.xaddrs = x] :
        r \in RelatesToValues, x \in XAddrsValues }
    \cup { [InMsg(id, WSD_PROBE_MATCH) EXCEPT !.relates_to = r, !.endpoint = e] :
        r \in RelatesToValues, e \in {Absent, PeerUrn} }

ResolveMatchShapes(id) ==
    { [InMsg(id, WSD_RESOLVE_MATCH) EXCEPT !.endpoint = e, !.has_xaddrs = TRUE,
                                            !.xaddrs = x] :
        e \in {Absent, "", PeerUrn}, x \in {<<>>, <<Url1>>, <<UrlBad>>} }
    \cup { [InMsg(id, WSD_RESOLVE_MATCH) EXCEPT !.endpoint = e] :
        e \in {Absent, "", PeerUrn} }
    \cup { [InMsg(id, WSD_RESOLVE_MATCH) EXCEPT !.endpoint = PeerUrn,
                                                !.relates_to = ForeignId,
                                                !.has_xaddrs = TRUE,
                                                !.xaddrs = <<" ", Url1, " ">>] }

\* Hellos that carry no XAddrs
BareHelloShapes(id) ==
    { [InMsg(id, WSD_HELLO) EXCEPT !.endpoint = e] : e \in {Absent, PeerUrn} }

\* the endpoint addresses peers announce themselves with
PeerSpellings ==
    {PeerUrn, PeerUuid, PeerUrnUpper, PeerUuidUpper, PeerBraced, PeerUpperPrefix}

HelloShapes(id) ==
    { [InMsg(id, WSD_HELLO) EXCEPT !.endpoint = e, !.has_xaddrs = TRUE,
                                    !.xaddrs = x] :
        e \in PeerSpellings \cup {OtherUrn}, x \in {<<Url1>>, <<Url2>>} }
    \cup { [InMsg(id, WSD_HELLO) EXCEPT !.endpoint = PeerUrn] }

ByeShapes(id) ==
    { [InMsg(id, WSD_BYE) EXCEPT !.endpoint = e] :
        e \in PeerSpellings \cup {OtherUrn, NotAUuid, "", Absent} }

BrokenShapes(id) ==
    { [InMsg(id, WSD_PROBE) EXCEPT !.types = WSD_TYPE_DEVICE, !.wellformed = FALSE],
      [InMsg(id, WSD_PROBE) EXCEPT !.types = WSD_TYPE_DEVICE, !.header = FALSE],
      [InMsg(id, WSD_PROBE) EXCEPT !.types = WSD_TYPE_DEVICE, !.msg_id = NoId],
      [InMsg(id, WSD_PROBE) EXCEPT !.types = WSD_TYPE_DEVICE, !.action = Absent],
      [InMsg(id, WSD_PROBE) EXCEPT !.types = WSD_TYPE_DEVICE, !.body = FALSE],
      [InMsg(id, "Other") EXCEPT !.types = WSD_TYPE_DEVICE] }

\* the datagrams a step may deliver
Universe ==
    IF mode = "dedup"
    THEN { [InMsg(id, WSD_PROBE) EXCEPT !.types = WSD_TYPE_DEVICE] : id \in InboundIds }
    ELSE IF mode = "host"
    THEN UNION { ProbeShapes(id) \cup ResolveShapes(id) \cup BrokenShapes(id) :
                 id \in InboundIds }
    ELSE IF mode = "http"
    THEN { [InMsg(id, WSD_PROBE) EXCEPT !.types = WSD_TYPE_DEVICE] : id \in InboundIds }
    ELSE IF mode = "registry"
    THEN UNION { HelloShapes(id) \cup ByeShapes(id) : id \in InboundIds }
    ELSE UNION { ProbeMatchShapes(id) \cup ResolveMatchShapes(id)
                 \cup BareHelloShapes(id) \cup BrokenShapes(id)
                 \cup {InMsg(id, NoText)} : id \in InboundIds }

\* where the datagrams come from and on which socket they arrive
Sources ==
    IF mode = "host"
    THEN { a \in PeerAddresses : (a.scope = 0) <=> (m_family = AF_INET) }
         \cup {SockAddr("10.0.0.2", 3702, 0, 0)}
    ELSE {SockAddr("10.0.0.2", 3702, 0, 0)}
Arrivals ==
    IF mode \in {"dedup", "http"} THEN {"recv_socket"}
    ELSE IF mode = "host" THEN Sockets
    ELSE {"recv_socket", "mc_send_socket"}
\* outcomes of the HTTP exchange a handler may start
Responses(msg) ==
    IF mode = "client" /\ msg.action \in Handlers("client") /\ msg.has_xaddrs
    THEN {"urlerror", "exception", "unparsable", "metadata"}
    ELSE IF mode = "registry" /\ msg.has_xaddrs
    THEN {"urlerror", "unparsable", "metadata"}
    ELSE {"urlerror"}

Count(seq, P(_)) == Cardinality({ k \in 1 .. Len(seq) : P(seq[k]) })

NoLast ==
    [op |-> "init", msg |-> InMsg(NoId, Absent), sock |-> "", src |-> NoAddress,
     in_window |-> FALSE, disp |-> <<>>, enq |-> <<>>, fetch |-> <<>>,
     evicted |-> <<>>, raised |-> FALSE, calls |-> <<>>, removed |-> {},
     req |-> Request(<<>>, FALSE, <<>>, FALSE, InMsg(NoId, Absent)),
     status |-> <<>>]

\* the messages with an AppSequence header among those a step enqueued
RECURSIVE HostMessagesOf(_)
HostMessagesOf(enq) ==
    IF enq = <<>> THEN <<>>
    ELSE (IF Head(enq).msg.message_number = NoAppSeq THEN <<>>
          ELSE <<Head(enq).msg>>) \o HostMessagesOf(Tail(enq))

\* the state after the monitor has created the endpoint's roles:
\* WSDHost.__init__ sends the Hello, WSDClient.__init__ the first Probe
InitMsgIn(md) ==
    /\ mode = md
    /\ args \in { a \in { Args(FALSE, FALSE, FALSE, FALSE),
                            Args(FALSE, FALSE, TRUE, FALSE),
                            Args(TRUE, FALSE, TRUE, FALSE) } :
                     /\ (md = "host" => ~a.no_host)
                     /\ (md \in {"client", "registry"} => a.discovery)
                     /\ (md = "http" => ~a.no_host /\ ~a.no_http) }
    /\ m_family \in {AF_INET, AF_INET6}
    /\ now = 0
    /\ LET ctx == Ctx(1, m_family, MepAddress, "eth0", <<>>, 0)
           E0 == Engine(<<>>, 0, 0, <<>>)
           E1 == IF HostAttached THEN HostSendHello(E0, ctx) ELSE E0
           E2 == IF ClientAttached THEN ClientSendProbe(E1, ctx) ELSE E1
       IN /\ known_messages = E2.known
          /\ message_number = E2.msgnum
          /\ uuid_ctr = E2.uuid
          /\ probes = IF ClientAttached
                      THEN [i \in {E2.enq[Len(E2.enq)].msg.msg_id} |-> 0]
                      ELSE <<>>
          /\ sent = HostMessagesOf(E2.enq)
    /\ registry = <<>>
    /\ fresh = 1
    /\ n_recv = 0
    /\ n_probes = 0
    /\ handled = [i \in 1 .. IdLimit |-> 0]
    /\ replied = [i \in 1 .. IdLimit |-> 0]
    /\ last = NoLast

\* the engine state of the process, and the process state and the record of
\* the step a handler leaves
MsgEngine == Engine(known_messages, message_number, uuid_ctr, registry)

EngineLeaves(E) ==
    /\ known_messages' = E.known
    /\ message_number' = E.msgnum
    /\ uuid_ctr' = E.uuid
    /\ registry' = E.registry
    /\ handled' = [i \in DOMAIN handled |->
                     handled[i] + Count(E.disp, LAMBDA d : d[3] = i)]
    /\ replied' = [i \in DOMAIN replied |->
                     replied[i] + Count(E.enq, LAMBDA q : q.msg.relates_to = i)]
    /\ sent' = sent \o HostMessagesOf(E.enq)

StepOf(E, msg) ==
    [NoLast EXCEPT !.msg = msg,
                   !.in_window = \E k \in 1 .. Len(known_messages) :
                                    known_messages[k] = msg.msg_id,
                   !.disp = E.disp, !.enq = E.enq, !.fetch = E.fetch,
                   !.evicted = E.evicted, !.raised = E.raised,
                   !.calls = E.calls,
                   !.removed = DOMAIN registry \ DOMAIN E.registry]

RecvLeaves(E, msg, sock, src) ==
    /\ EngineLeaves(E)
    /\ last' = [StepOf(E, msg) EXCEPT !.op = "recv", !.sock = sock, !.src = src]

\* MulticastHandler.handle_request(key): one datagram read from a socket of
\* the endpoint and handed to every handler registered for that socket
RecvDatagram ==
    /\ n_recv < RecvLimit
    /\ \E msg \in Universe, sock \in Arrivals, src \in Sources :
       \E resp \in Responses(msg) :
        /\ RecvLeaves(Dispatch(HandlersOf(sock), MsgEngine, MepCtx, msg, src, resp),
                      msg, sock, src)
        /\ fresh' = IF msg.msg_id = fresh \/ msg.msg_id = NoId THEN fresh + 1 ELSE fresh
    /\ n_recv' = n_recv + 1
    /\ UNCHANGED <<args, mode, m_family, probes, now, n_probes>>
    /\ UNCHANGED otherThanMsg

\* ApiServer.handle_command("probe"): client.send_probe()
ApiProbe ==
    /\ args.discovery
    /\ n_probes < MaxProbes
    /\ LET kept == RemoveOutdatedProbes(probes, now)
           E == ClientSendProbe(Engine(known_messages, message_number, uuid_ctr,
                                       registry), MepCtx)
           i == E.enq[1].msg.msg_id
       IN /\ probes' = [j \in DOMAIN kept \cup {i} |-> IF j = i THEN now ELSE kept[j]]
          /\ uuid_ctr' = E.uuid
          /\ last' = [NoLast EXCEPT !.op = "probe", !.enq = E.enq]
    /\ n_probes' = n_probes + 1
    /\ UNCHANGED <<args, mode, m_family, known_messages, message_number, registry,
                   now, fresh, n_recv, handled, replied, sent>>
    /\ UNCHANGED otherThanMsg

\* the requests a peer may post: paths, Content-Type values and bodies
Paths == { <<"/", OwnUuid>>, <<"/">>, <<"/", PeerUuid>>, <<"/", OwnUuid, "/">> }
ContentTypes ==
    { <<MIME_TYPE_SOAP_XML>>, <<MIME_TYPE_SOAP_XML, "; charset=utf-8">>,
      <<"text/xml">>, <<"Application/SOAP+XML">>, <<>> }
Bodies ==
    UNION { { InMsg(id, WSD_GET), InMsg(id, WSD_PROBE),
              [InMsg(id, WSD_GET) EXCEPT !.wellformed = FALSE],
              [InMsg(id, WSD_GET) EXCEPT !.body = FALSE] } : id \in InboundIds }
Requests ==
    { Request(p, TRUE, ct, cl, b) :
        p \in Paths, ct \in ContentTypes, cl \in BOOLEAN, b \in Bodies }
    \cup { Request(p, FALSE, <<>>, cl, b) : p \in Paths, cl \in BOOLEAN, b \in Bodies }

\* the process state and the record of the step do_POST leaves
PostLeaves(r, req) ==
    /\ known_messages' = r.E.known
    /\ uuid_ctr' = r.E.uuid
    /\ handled' = [i \in DOMAIN handled |->
                     handled[i] + Count(r.E.disp, LAMBDA d : d[3] = i)]
    /\ last' = [NoLast EXCEPT !.op = "post", !.msg = req.msg, !.req = req,
                              !.status = r.status, !.disp = r.E.disp,
                              !.raised = r.E.raised,
                              !.in_window = \E k \in 1 .. Len(known_messages) :
                                              known_messages[k] = req.msg.msg_id]

\* WSDHttpServer's handle_request: one POST served by do_POST
HttpPost ==
    /\ n_recv < RecvLimit
    /\ \E req \in Requests :
        /\ PostLeaves(DoPost(MsgEngine, MepCtx, req), req)
        /\ fresh' = IF req.msg.msg_id = fresh THEN fresh + 1 ELSE fresh
    /\ n_recv' = n_recv + 1
    /\ UNCHANGED <<args, mode, m_family, message_number, probes, registry, now,
                   n_probes, replied, sent>>
    /\ UNCHANGED otherThanMsg

\* the clock advances
TickStep == 9
Tick ==
    /\ now + TickStep <= MaxTime
    /\ now' = now + TickStep
    /\ last' = [NoLast EXCEPT !.op = "tick"]
    /\ UNCHANGED <<args, mode, m_family, known_messages, message_number, uuid_ctr,
                   probes, registry, fresh, n_recv, n_probes, handled, replied,
                   sent>>
    /\ UNCHANGED otherThanMsg

NextDedup == RecvDatagram
NextHost == RecvDatagram
NextClient == RecvDatagram \/ ApiProbe \/ Tick
NextRegistry == RecvDatagram
NextHttp == HttpPost \/ RecvDatagram


(***************************************************************************)
(* The address monitor: NetworkAddressMonitor and what it manages.         *)
(* W is the process state while one event is handled: the monitor's        *)
(* lists, the role lists, the objects, and the engine state E.             *)
(***************************************************************************)
Triple(family, address, iface) ==
    [family |-> family, address |-> address, iface |-> iface]

\* the addresses the OS reports
Addresses ==
    { Triple(AF_INET, "10.0.0.1", "eth0"), Triple(AF_INET6, "fe80::1", "eth1"),
      Triple(AF_INET, "127.0.0.1", "lo"), Triple(AF_INET6, "2001:db8::1", "eth0") }

\* the raw address, a byte array, of which socket.inet_ntop gives the text
Raw ==
    ("10.0.0.1" :> <<10, 0, 0, 1>>)
    @@ ("127.0.0.1" :> <<127, 0, 0, 1>>)
    @@ ("fe80::1" :> <<254, 128, 0, 0, 0, 0, 0, 0, 0, 0, 0, 0, 0, 0, 0, 1>>)
    @@ ("2001:db8::1" :> <<32, 1, 13, 184, 0, 0, 0, 0, 0, 0, 0, 0, 0, 0, 0, 1>>)

\* "addr[0] == 127" and "addr[0:2] != b'\xfe\x80'" on the raw address
FirstByteIs127(address) == Raw[address][1] = 127
StartsWithFe80(address) == SubSeq(Raw[address], 1, 2) = <<254, 128>>

\* the configurations the monitor runs under
Configs ==
    { Args(FALSE, FALSE, TRUE, FALSE),
      Filtered(Args(FALSE, TRUE, FALSE, TRUE), FALSE, FALSE, {"eth0"}),
      Filtered(Args(TRUE, FALSE, TRUE, TRUE), TRUE, FALSE, {"10.0.0.1"}),
      Filtered(Args(FALSE, FALSE, FALSE, FALSE), FALSE, TRUE, {}) }

\* NetworkAddressMonitor.is_address_handled(addr, addr_family, interface)
IsAddressHandledAnyInterface(act, a, t) ==
    IF ~act THEN FALSE
    ELSE IF a.ipv4only /\ t.family # AF_INET THEN FALSE
    ELSE IF a.ipv6only /\ t.family # AF_INET6 THEN FALSE
    ELSE IF t.family = AF_INET /\ FirstByteIs127(t.address) THEN FALSE
    ELSE IF t.family = AF_INET6 /\ ~StartsWithFe80(t.address) THEN FALSE
    ELSE TRUE

IsAddressHandled(act, a, t) ==
    IF ~act THEN FALSE
    ELSE IF a.ipv4only /\ t.family # AF_INET THEN FALSE
    ELSE IF a.ipv6only /\ t.family # AF_INET6 THEN FALSE
    ELSE IF t.family = AF_INET /\ FirstByteIs127(t.address) THEN FALSE
    ELSE IF t.family = AF_INET6 /\ ~StartsWithFe80(t.address) THEN FALSE
    ELSE IF a.interface # {} /\ t.iface \notin a.interface
            /\ t.address \notin a.interface THEN FALSE
    ELSE TRUE

\* a MulticastHandler after __init__: sockets open and registered, no
\* message handlers yet; host and client are the roles created on it
\* ("none", "up" or "tearing_down"), pending the host's pending_tasks
NewMep(t) ==
    [triple |-> t, open |-> TRUE, recv |-> <<>>, mc_send |-> <<>>,
     host |-> "none", client |-> "none", pending |-> <<>>]

\* MulticastHandler.handles(family, addr, interface)
HandlesOtherInterface(m, t) ==
    m.triple.family = t.family /\ m.triple.address = t.address
    /\ m.triple.iface # t.iface

Handles(m, t) ==
    m.triple.family = t.family /\ m.triple.address = t.address
    /\ m.triple.iface = t.iface

\* list.remove(x): the first occurrence leaves
RECURSIVE ListRemove(_, _)
ListRemove(list, x) ==
    IF list = <<>> THEN <<>>
    ELSE IF Head(list) = x THEN Tail(list)
    ELSE <<Head(list)>> \o ListRemove(Tail(list), x)

\* get_mch_by_address(family, address, interface); 0 stands for None
RECURSIVE GetMchByAddress(_, _, _)
GetMchByAddress(list, objs, t) ==
    IF list = <<>> THEN 0
    ELSE IF Handles(objs[Head(list)], t) THEN Head(list)
    ELSE GetMchByAddress(Tail(list), objs, t)

World(E) ==
    [mchs |-> mchs, http_servers |-> http_servers,
     teardown_tasks |-> teardown_tasks, hosts |-> WSDHost_instances,
     clients |-> WSDClient_instances, meps |-> meps, tasks |-> tasks, E |-> E]

MepCtxOf(W, id) ==
    Ctx(id, W.meps[id].triple.family, W.meps[id].triple.address,
        W.meps[id].triple.iface, <<>>, 0)

\* a scheduling task: created by enqueue_datagram for a Bye or a reply, it
\* completes after its last send; callback is the state of an
\* add_done_callback(mch_teardown)
NewTask(id, kind) == [mch |-> id, kind |-> kind, done |-> FALSE, callback |-> "none"]

\* WSDHost(mch): __init__
CreateHostWithoutHello(W, id) ==
    [W EXCEPT !.hosts = Append(@, id),
              !.meps[id].recv = Append(@, "host"),
              !.meps[id].host = "up"]

CreateHost(W, id) ==
    [W EXCEPT !.hosts = Append(@, id),
              !.meps[id].recv = Append(@, "host"),
              !.meps[id].host = "up",
              !.E = HostSendHello(W.E, MepCtxOf(W, id))]

\* WSDClient(mch): __init__
CreateClient(W, id) ==
    [W EXCEPT !.clients = Append(@, id),
              !.meps[id].mc_send = Append(@, "client"),
              !.meps[id].recv = Append(@, "client"),
              !.meps[id].client = "up",
              !.E = ClientSendProbe(W.E, MepCtxOf(W, id))]

\* WSDClient.cleanup
ClientCleanup(W, id) ==
    [W EXCEPT !.clients = ListRemove(@, id),
              !.meps[id].mc_send = ListRemove(@, "client"),
              !.meps[id].recv = ListRemove(@, "client")]

\* WSDHost.cleanup: the host stays in mch.message_handlers
HostCleanup(W, id) == [W EXCEPT !.hosts = ListRemove(@, id)]

\* MulticastHandler.cleanup
MchCleanupLeavesOpen(W, id) == W

MchCleanup(W, id) == [W EXCEPT !.meps[id].open = FALSE]

\* NetworkAddressMonitor.handle_new_address past the filter
HandleNewAddressHttpAlways(W, a, t) ==
    IF GetMchByAddress(W.mchs, W.meps, t) # 0 THEN W
    ELSE LET id == Len(W.meps) + 1
             W1 == [W EXCEPT !.meps = Append(@, NewMep(t)),
                             !.mchs = Append(@, id)]
             W2 == IF a.no_host THEN W1 ELSE CreateHost(W1, id)
             W3 == IF a.no_http THEN W2
                   ELSE [W2 EXCEPT !.http_servers = Append(@, id)]
         IN IF a.discovery THEN CreateClient(W3, id) ELSE W3

HandleNewAddress(W, a, t) ==
    IF GetMchByAddress(W.mchs, W.meps, t) # 0 THEN W
    ELSE LET id == Len(W.meps) + 1
             W1 == [W EXCEPT !.meps = Append(@, NewMep(t)),
                             !.mchs = Append(@, id)]
             W2 == IF a.no_host THEN W1 ELSE CreateHost(W1, id)
             W3 == IF a.no_host \/ a.no_http THEN W2
                   ELSE [W2 EXCEPT !.http_servers = Append(@, id)]
         IN IF a.discovery THEN CreateClient(W3, id) ELSE W3

\* "for s in self.http_servers: if s.mch == mch: s.server_close();
\* self.http_servers.remove(s)": the loop's index moves on over the
\* shortened list
RECURSIVE CloseServersOf(_, _, _)
CloseServersOf(list, i, id) ==
    IF i > Len(list) THEN list
    ELSE IF list[i] = id THEN CloseServersOf(ListRemove(list, id), i + 1, id)
    ELSE CloseServersOf(list, i + 1, id)

\* "for c in WSDClient.instances: if c.mch == mch: c.cleanup(); break"
InList(list, x) == \E k \in 1 .. Len(list) : list[k] = x

\* NetworkAddressMonitor.handle_deleted_address past the filter
HandleDeletedAddress(W, t) ==
    LET id == GetMchByAddress(W.mchs, W.meps, t)
    IN IF id = 0 THEN W
       ELSE LET W1 == IF InList(W.clients, id) THEN ClientCleanup(W, id) ELSE W
                W2 == IF InList(W1.hosts, id) THEN HostCleanup(W1, id) ELSE W1
                W3 == [W2 EXCEPT !.http_servers = CloseServersOf(@, 1, id)]
            IN [MchCleanup(W3, id) EXCEPT !.mchs = ListRemove(@, id)]

\* WSDHost.teardown, WSDHost.cleanup and
\* "self.teardown_tasks.extend(h.pending_tasks)" for host h
TeardownHost(W, id) ==
    LET E1 == HostSendBye(W.E, MepCtxOf(W, id))
        task == Len(W.tasks) + 1
        W1 == [W EXCEPT !.E = E1,
                        !.meps[id].host = "tearing_down",
                        !.meps[id].pending = Append(@, task),
                        !.tasks = Append(@, NewTask(id, "bye"))]
        W2 == HostCleanup(W1, id)
    IN [W2 EXCEPT !.teardown_tasks = @ \o W2.meps[id].pending]

\* "for h in WSDHost.instances: ..." over the list that cleanup shortens
RECURSIVE TeardownHosts(_, _)
TeardownHosts(W, i) ==
    IF i > Len(W.hosts) THEN W
    ELSE TeardownHosts(TeardownHost(W, W.hosts[i]), i + 1)

\* WSDClient.teardown and cleanup; a client has no pending tasks
TeardownClient(W, id) ==
    ClientCleanup([W EXCEPT !.meps[id].client = "tearing_down"], id)

RECURSIVE TeardownClients(_, _)
TeardownClients(W, i) ==
    IF i > Len(W.clients) THEN W
    ELSE TeardownClients(TeardownClient(W, W.clients[i]), i + 1)

\* "for t in self.teardown_tasks: t.add_done_callback(self.mch_teardown)"
AddDoneCallbacks(W) ==
    [W EXCEPT !.tasks = [k \in DOMAIN W.tasks |->
        IF InList(W.teardown_tasks, k)
        THEN [W.tasks[k] EXCEPT !.callback = "registered"]
        ELSE W.tasks[k]]]

\* NetworkAddressMonitor.teardown past "self.active = False", called while
\* the event loop runs
Teardown(W) ==
    IF Len(W.teardown_tasks) > 0 THEN W
    ELSE LET W1 == TeardownClients(TeardownHosts(W, 1), 1)
         IN AddDoneCallbacks([W1 EXCEPT !.http_servers = <<>>])

\* "self.aio_loop.run_until_complete(asyncio.gather(*self.teardown_tasks))"
RunUntilComplete(W) ==
    [W EXCEPT !.tasks = [k \in DOMAIN W.tasks |->
        IF InList(W.teardown_tasks, k) THEN [W.tasks[k] EXCEPT !.done = TRUE]
        ELSE W.tasks[k]]]

\* NetworkAddressMonitor.teardown past "self.active = False", called by
\* main after the event loop has left run_forever
TeardownStopped(W) ==
    IF Len(W.teardown_tasks) > 0 THEN W
    ELSE LET W1 == TeardownClients(TeardownHosts(W, 1), 1)
         IN RunUntilComplete([W1 EXCEPT !.http_servers = <<>>])

\* NetworkAddressMonitor.mch_teardown(task)
MchTeardown(W) ==
    IF \E k \in 1 .. Len(W.teardown_tasks) : ~W.tasks[W.teardown_tasks[k]].done
    THEN W
    ELSE [W EXCEPT !.teardown_tasks = <<>>,
                   !.meps = [k \in DOMAIN W.meps |->
                       IF InList(W.mchs, k) THEN [W.meps[k] EXCEPT !.open = FALSE]
                       ELSE W.meps[k]],
                   !.mchs = <<>>]

NoTriple == Triple("", "", "")
Event(op, t, accepted, mep) ==
    [op |-> op, triple |-> t, accepted |-> accepted, mep |-> mep]

NoneAdded == [t \in Addresses |-> 0]

\* MetaEnumAfterInit.__call__: "if not args.no_autostart: obj.enumerate()"
AutostartAlways(a) == TRUE

Autostart(a) == ~a.no_autostart

\* the process has not been told to terminate
Running == ev.op # "shutdown"

InitMon ==
    /\ args \in Configs
    /\ active = Autostart(args)
    /\ mchs = <<>>
    /\ http_servers = <<>>
    /\ teardown_tasks = <<>>
    /\ WSDHost_instances = <<>>
    /\ WSDClient_instances = <<>>
    /\ meps = <<>>
    /\ tasks = <<>>
    /\ added = NoneAdded
    /\ ev = Event("init", NoTriple, FALSE, 0)

\* the engine state of the process, and the process state a handler leaves
MonEngine == Engine(known_messages, message_number, uuid_ctr, <<>>)

Leaves(W) ==
    /\ mchs' = W.mchs
    /\ http_servers' = W.http_servers
    /\ teardown_tasks' = W.teardown_tasks
    /\ WSDHost_instances' = W.hosts
    /\ WSDClient_instances' = W.clients
    /\ meps' = W.meps
    /\ tasks' = W.tasks
    /\ known_messages' = W.E.known
    /\ message_number' = W.E.msgnum
    /\ uuid_ctr' = W.E.uuid
    /\ sent' = sent \o HostMessagesOf(W.E.enq)

monRest == <<mode, m_family, probes, registry, now, n_probes, handled, replied,
             last>>

\* an RTM_NEWADDR (or route-socket) event: handle_new_address
NewAddress ==
    \E t \in Addresses :
        LET accepted == IsAddressHandled(active, args, t)
            W == IF accepted THEN HandleNewAddress(World(MonEngine), args, t)
                 ELSE World(MonEngine)
            mep == GetMchByAddress(W.mchs, W.meps, t)
        IN /\ Running
           /\ Len(W.meps) <= MaxMeps
           /\ Leaves(W)
           /\ added' = IF accepted THEN [added EXCEPT ![t] = mep] ELSE added
           /\ ev' = Event("add", t, accepted, mep)
           /\ UNCHANGED <<active, args, fresh, n_recv>>
           /\ UNCHANGED <<monRest, schedVars>>

\* an RTM_DELADDR event: handle_deleted_address
DeletedAddress ==
    \E t \in Addresses :
        LET accepted == IsAddressHandled(active, args, t)
            W == IF accepted THEN HandleDeletedAddress(World(MonEngine), t)
                 ELSE World(MonEngine)
        IN /\ Running
           /\ Leaves(W)
           /\ added' = IF accepted THEN [added EXCEPT ![t] = 0] ELSE added
           /\ ev' = Event("delete", t, accepted, IF accepted THEN added[t] ELSE 0)
           /\ UNCHANGED <<active, args, fresh, n_recv>>
           /\ UNCHANGED <<monRest, schedVars>>

\* the API's "start": enumerate(); the addresses come as later events
Start ==
    /\ Running
    /\ active' = TRUE
    /\ ev' = Event("start", NoTriple, ~active, 0)
    /\ UNCHANGED <<mchs, http_servers, teardown_tasks, WSDHost_instances,
                   WSDClient_instances, meps, tasks, added>>
    /\ UNCHANGED <<msgVars, schedVars>>

\* the API's "stop": teardown()
Stop ==
    /\ Running
    /\ active' = FALSE
    /\ Leaves(IF active THEN Teardown(World(MonEngine)) ELSE World(MonEngine))
    /\ added' = NoneAdded
    /\ ev' = Event("stop", NoTriple, active, 0)
    /\ UNCHANGED <<args, fresh, n_recv>>
    /\ UNCHANGED <<monRest, schedVars>>

\* SIGINT or SIGTERM: sigterm_handler raises SystemExit out of run_forever
\* and main calls nm.cleanup(), which is teardown(), then stops the loop
Shutdown ==
    /\ Running
    /\ active' = FALSE
    /\ Leaves(IF active THEN TeardownStopped(World(MonEngine))
              ELSE World(MonEngine))
    /\ added' = NoneAdded
    /\ ev' = Event("shutdown", NoTriple, active, 0)
    /\ UNCHANGED <<args, fresh, n_recv>>
    /\ UNCHANGED <<monRest, schedVars>>

\* a recorded scheduling task makes its last send and completes; its done
\* callback is scheduled
TaskDone ==
    \E k \in 1 .. Len(tasks) :
        /\ Running
        /\ ~tasks[k].done
        /\ tasks' = [tasks EXCEPT ![k].done = TRUE,
                                  ![k].callback = IF @ = "registered"
                                                  THEN "scheduled" ELSE @]
        /\ ev' = Event("task_done", NoTriple, TRUE, tasks[k].mch)
        /\ UNCHANGED <<active, mchs, http_servers, teardown_tasks,
                       WSDHost_instances, WSDClient_instances, meps, added>>
        /\ UNCHANGED <<msgVars, schedVars>>

\* the event loop calls mch_teardown(task)
MchTeardownCallback ==
    \E k \in 1 .. Len(tasks) :
        /\ Running
        /\ tasks[k].callback = "scheduled"
        /\ LET W0 == World(MonEngine)
               W == MchTeardown([W0 EXCEPT !.tasks[k].callback = "called"])
           IN Leaves(W)
        /\ ev' = Event("mch_teardown", NoTriple, TRUE, tasks[k].mch)
        /\ UNCHANGED <<active, added>>
        /\ UNCHANGED <<args, fresh, n_recv>>
        /\ UNCHANGED <<monRest, schedVars>>

\* the datagrams peers send to an endpoint of the monitor
MonInbound ==
    { [InMsg(fresh, WSD_PROBE) EXCEPT !.types = WSD_TYPE_DEVICE],
      [InMsg(fresh, WSD_RESOLVE) EXCEPT !.endpoint = OwnUrn] }

\* a reply enqueued by a host that is tearing down joins its pending_tasks
RecordPending(W, id, n) ==
    IF n = 0 \/ W.meps[id].host # "tearing_down" THEN W
    ELSE [W EXCEPT !.tasks = Append(@, NewTask(id, "reply")),
                   !.meps[id].pending = Append(@, Len(W.tasks) + 1)]

\* MulticastHandler.handle_request on the receive socket of an endpoint
\* whose sockets are registered
MonRecv ==
    /\ Running
    /\ n_recv < MaxMonRecv
    /\ \E id \in 1 .. Len(meps), msg \in MonInbound :
        /\ meps[id].open
        /\ meps[id].recv # <<>>
        /\ LET W0 == World(MonEngine)
               E == Dispatch(meps[id].recv, W0.E, MepCtxOf(W0, id), msg,
                             SockAddr("10.0.0.2", 3702, 0, 0), "urlerror")
           IN Leaves(RecordPending([W0 EXCEPT !.E = E], id, Len(E.enq)))
        /\ ev' = Event("recv", meps[id].triple, TRUE, id)
    /\ fresh' = fresh + 1
    /\ n_recv' = n_recv + 1
    /\ UNCHANGED <<active, added, args>>
    /\ UNCHANGED <<monRest, schedVars>>

NextMon ==
    \/ NewAddress
    \/ DeletedAddress
    \/ Start
    \/ Stop
    \/ TaskDone
    \/ MchTeardownCallback
    \/ MonRecv
    \/ Shutdown

otherThanSched == <<msgVars, monVars>>

SchedIdle ==
    /\ s_pc = "idle"
    /\ s_address = NoAddress
    /\ s_count = 0
    /\ s_delta = 0
    /\ s_i = 0
    /\ s_attempts = 0
    /\ s_failed = 0
    /\ s_delays = <<>>

InitSched ==
    /\ SchedIdle
    /\ s_mcast \in { MulticastAddress(AF_INET, 2), MulticastAddress(AF_INET6, 2) }

\* enqueue_datagram(msg, address): create_task(schedule_datagram(msg, address))
SchedEnqueue ==
    /\ s_pc \in {"idle", "done", "raised"}
    /\ \E a \in {NoAddress, s_mcast} \cup PeerAddresses :
           s_address' = EnqueueAddress(a, s_mcast)
    /\ s_pc' = "start"
    /\ s_count' = 0
    /\ s_delta' = 0
    /\ s_i' = 0
    /\ s_attempts' = 0
    /\ s_failed' = 0
    /\ s_delays' = <<>>
    /\ UNCHANGED s_mcast
    /\ UNCHANGED otherThanSched

\* schedule_datagram up to the first await: the immediate send, msg_count,
\* the random initial delta; then the loop test.
SchedStart ==
    /\ s_pc = "start"
    /\ \E ok \in BOOLEAN, d \in InitialDeltas :
        /\ s_attempts' = s_attempts + 1
        /\ s_failed' = s_failed + (IF ok THEN 0 ELSE 1)
        /\ IF SendDatagramRaises(ok)
           THEN /\ s_pc' = "raised"
                /\ UNCHANGED <<s_count, s_delta, s_i, s_delays>>
           ELSE /\ s_count' = MsgCount(s_address, s_mcast)
                /\ s_delta' = d
                /\ s_i' = 0
                /\ IF 0 < s_count' - 1
                   THEN s_pc' = "sleep" /\ s_delays' = Append(s_delays, d)
                   ELSE s_pc' = "done" /\ s_delays' = s_delays
    /\ UNCHANGED <<s_mcast, s_address>>
    /\ UNCHANGED otherThanSched

\* one loop iteration after "await asyncio.sleep(delta / 1000.0)" returns
SchedWake ==
    /\ s_pc = "sleep"
    /\ \E ok \in BOOLEAN :
        /\ s_attempts' = s_attempts + 1
        /\ s_failed' = s_failed + (IF ok THEN 0 ELSE 1)
        /\ IF SendDatagramRaises(ok)
           THEN /\ s_pc' = "raised"
                /\ UNCHANGED <<s_delta, s_i, s_delays>>
           ELSE /\ s_delta' = NextDelta(s_delta)
                /\ s_i' = s_i + 1
                /\ IF s_i' < s_count - 1
                   THEN s_pc' = "sleep" /\ s_delays' = Append(s_delays, s_delta')
                   ELSE s_pc' = "done" /\ s_delays' = s_delays
    /\ UNCHANGED <<s_mcast, s_address, s_count>>
    /\ UNCHANGED otherThanSched

NextSched == SchedEnqueue \/ SchedStart \/ SchedWake

vars == <<schedVars, msgVars, monVars>>

\* the variables of the parts a specification does not run
MsgUnused ==
    /\ args = Args(FALSE, FALSE, FALSE, FALSE)
    /\ mode = "none"
    /\ m_family = AF_INET
    /\ known_messages = <<>>
    /\ message_number = 0
    /\ uuid_ctr = 0
    /\ probes = <<>>
    /\ registry = <<>>
    /\ now = 0
    /\ fresh = 1
    /\ n_recv = 0
    /\ n_probes = 0
    /\ handled = <<>>
    /\ replied = <<>>
    /\ sent = <<>>
    /\ last = NoLast

SchedUnused == SchedIdle /\ s_mcast = MulticastAddress(AF_INET, 2)

MonUnused ==
    /\ active = FALSE
    /\ mchs = <<>>
    /\ http_servers = <<>>
    /\ teardown_tasks = <<>>
    /\ WSDHost_instances = <<>>
    /\ WSDClient_instances = <<>>
    /\ meps = <<>>
    /\ tasks = <<>>
    /\ added = NoneAdded
    /\ ev = Event("init", NoTriple, FALSE, 0)

\* the message variables while the monitor runs
MonMsgInit ==
    /\ mode = "monitor"
    /\ m_family = AF_INET
    /\ known_messages = <<>>
    /\ message_number = 0
    /\ uuid_ctr = 0
    /\ probes = <<>>
    /\ registry = <<>>
    /\ now = 0
    /\ fresh = 1
    /\ n_recv = 0
    /\ n_probes = 0
    /\ handled = <<>>
    /\ replied = <<>>
    /\ sent = <<>>
    /\ last = NoLast

InitSchedSpec == InitSched /\ MsgUnused /\ MonUnused
InitDedup == InitMsgIn("dedup") /\ SchedUnused /\ MonUnused
InitHost == InitMsgIn("host") /\ SchedUnused /\ MonUnused
InitClient == InitMsgIn("client") /\ SchedUnused /\ MonUnused
InitRegistry == InitMsgIn("registry") /\ SchedUnused /\ MonUnused
InitHttp == InitMsgIn("http") /\ SchedUnused /\ MonUnused
InitMonSpec == InitMon /\ MonMsgInit /\ SchedUnused

\* the event loop runs every task that is ready and every timer that is due
SpecSched ==
    InitSchedSpec /\ [][NextSched]_vars /\ WF_vars(SchedStart) /\ WF_vars(SchedWake)
SpecDedup == InitDedup /\ [][NextDedup]_vars
SpecHost == InitHost /\ [][NextHost]_vars
SpecClient == InitClient /\ [][NextClient]_vars
SpecRegistry == InitRegistry /\ [][NextRegistry]_vars
SpecHttp == InitHttp /\ [][NextHttp]_vars
SpecMon == InitMonSpec /\ [][NextMon]_vars

(***************************************************************************)
(* Properties of the SOAP-over-UDP scheduler (SpecSched).                  *)
(***************************************************************************)
\* C5: every enqueued message gets exactly 4 send attempts when its
\* destination is the endpoint's multicast tuple and exactly 2 otherwise; the
\* first attempt precedes every sleep; a failing attempt never ends the
\* coroutine, which always runs to its last attempt.
C5_SendAttempts ==
    /\ [](s_pc = "done" => s_attempts = (IF s_address = s_mcast THEN 4 ELSE 2))
    /\ [](s_pc # "raised")
    /\ [](s_pc = "sleep" => s_attempts = Len(s_delays))
    /\ [](s_pc = "done" => Len(s_delays) = s_attempts - 1)
    /\ ((s_pc = "start") ~> (s_pc = "done"))

\* C5 witness: a multicast message finished with four attempts although
\* every one of them failed
C5_Witness ==
    /\ s_pc = "done"
    /\ s_address = s_mcast
    /\ s_attempts = 4
    /\ s_failed = 4

\* C6: the first delay slept is an integer in [50, 250], each later one is
\* min(2 * previous, 500), so all lie in [50, 500] and never decrease.
C6_Delays ==
    /\ Len(s_delays) >= 1 => s_delays[1] \in 50 .. 250
    /\ \A k \in 2 .. Len(s_delays) :
          /\ s_delays[k] = Min(2 * s_delays[k - 1], 500)
          /\ s_delays[k] >= s_delays[k - 1]
    /\ \A k \in 1 .. Len(s_delays) : s_delays[k] \in 50 .. 500

\* C6 witness: a multicast message whose doubling reached the clamp
C6_Witness ==
    /\ s_pc = "done"
    /\ s_delays = <<200, 400, 500>>

(***************************************************************************)
(* Properties of the duplicate window (SpecDedup).                         *)
(***************************************************************************)
InWindow(i, window) == \E k \in 1 .. Len(window) : window[k] = i

\* C2 as stated: whatever the sequence of inbound datagrams, a MessageID is
\* dispatched to a handler at most once.
C2_AtMostOnceEver == \A i \in DOMAIN handled : handled[i] <= 1

\* C2 as amended: a MessageID is dispatched only by a delivery that finds it
\* outside the recent-ID window and puts it there, once per such delivery;
\* so it is dispatched at most once for as long as it stays in the window.
C2_AtMostOncePerStay ==
    [][\A i \in DOMAIN handled :
          handled'[i] # handled[i] =>
             /\ ~InWindow(i, known_messages)
             /\ InWindow(i, known_messages')
             /\ handled'[i] = handled[i] + 1]_vars

\* C2 witness: MessageID 1 dispatched a second time after ten later IDs
\* pushed it out of the window
C2_Witness ==
    /\ last.op = "recv"
    /\ last.msg.msg_id = 1
    /\ last.disp # <<>>
    /\ handled[1] = 2

\* C3: a datagram whose MessageID is in the window invokes no handler and
\* schedules nothing; a Probe dispatched once and delivered again while in
\* the window has exactly one ProbeMatches scheduled.
C3_DuplicateDropped ==
    (last.op = "recv" /\ last.in_window) =>
        /\ last.disp = <<>>
        /\ last.enq = <<>>
        /\ last.fetch = <<>>
        /\ (HostAttached /\ handled[last.msg.msg_id] = 1) =>
               replied[last.msg.msg_id] = 1

\* C3 witness: the Probe with MessageID 1 delivered again right away
C3_Witness ==
    /\ last.op = "recv"
    /\ last.in_window
    /\ last.msg.msg_id = 1
    /\ last.msg.action = WSD_PROBE
    /\ HostAttached
    /\ handled[1] = 1
    /\ replied[1] = 1
    /\ n_recv = 2

\* C4: the window never holds more than 10 entries; a new MessageID is
\* appended and, when the window is full, exactly the oldest entry leaves;
\* a delivery whose MessageID is outside the window, an evicted one
\* included, is accepted and dispatched.
C4_WindowFifo ==
    /\ Len(known_messages) <= 10
    /\ [][/\ Len(known_messages') <= 10
          /\ n_recv' # n_recv =>
                LET i == last'.msg.msg_id
                IN IF InWindow(i, known_messages)
                   THEN known_messages' = known_messages
                   ELSE /\ known_messages' =
                              IF Len(known_messages) < 10
                              THEN Append(known_messages, i)
                              ELSE Append(Tail(known_messages), i)
                        /\ HostAttached => handled'[i] = handled[i] + 1]_vars

\* C4 witness: the 11th MessageID pushed out MessageID 1, which was then
\* delivered again, dispatched again, and pushed out MessageID 2
C4_Witness ==
    /\ known_messages = <<3, 4, 5, 6, 7, 8, 9, 10, 11, 1>>
    /\ last.evicted = <<2>>
    /\ handled[1] = 2

(***************************************************************************)
(* Properties of the host role on one endpoint (SpecHost).                 *)
(***************************************************************************)
\* the envelope of the datagram reaches the host's Probe handler
C10_ProbeReachesHost ==
    /\ last.op = "recv"
    /\ last.sock = "recv_socket"
    /\ last.msg.action = WSD_PROBE

C10_Replies == \E k \in 1 .. Len(last.enq) : last.enq[k].msg.relates_to # NoId

\* C10: the host replies to a Probe only if its Types text is exactly
\* "wsdp:Device", and does reply to such a Probe unless it is dropped for its
\* Scopes or as a duplicate; the reply is one ProbeMatches whose RelatesTo is
\* the Probe's MessageID, to the datagram's source, with two sends.
C10_ProbeReply ==
    C10_ProbeReachesHost =>
        /\ C10_Replies => last.msg.types = "wsdp:Device"
        /\ ( /\ last.msg.wellformed /\ last.msg.header /\ last.msg.body
             /\ last.msg.elem /\ last.msg.msg_id # NoId
             /\ last.msg.types = "wsdp:Device"
             /\ ~ScopesTruthy(last.msg.scopes)
             /\ ~last.in_window ) => C10_Replies
        /\ C10_Replies =>
             /\ Len(last.enq) = 1
             /\ last.enq[1].msg.action = WSD_PROBE_MATCH
             /\ last.enq[1].msg.body.kind = "ProbeMatches"
             /\ last.enq[1].msg.relates_to = last.msg.msg_id
             /\ last.enq[1].address = last.src
             /\ last.enq[1].address # MulticastAddress(m_family, 2)
             /\ last.enq[1].msg_count = 2

\* C10 witness: a Probe for wsdp:Device from an ephemeral port answered
C10_Witness ==
    /\ C10_ProbeReachesHost
    /\ last.msg.types = "wsdp:Device"
    /\ last.msg.scopes = Absent
    /\ last.src = SockAddr("10.0.0.3", 49152, 0, 0)
    /\ Len(last.enq) = 1
    /\ last.enq[1].msg.action = WSD_PROBE_MATCH
    /\ last.enq[1].msg_count = 2

\* C23: a Probe that holds a wsd:Scopes element, with child elements or
\* with text only, gets no reply from the host.
C23_ScopesDropped ==
    (C10_ProbeReachesHost /\ last.msg.elem /\ last.msg.scopes # Absent) =>
        last.enq = <<>>

\* the datagram cannot be parsed, or its envelope lacks Header, MessageID,
\* Action or Body
C30_Malformed ==
    /\ last.op = "recv"
    /\ \/ ~last.msg.wellformed
       \/ ~last.msg.header
       \/ last.msg.msg_id = NoId
       \/ last.msg.action = Absent
       \/ ~last.msg.body

\* a Probe for wsdp:Device without Scopes whose MessageID is not in the
\* window of known MessageIDs, on the multicast-receive socket
C30_GoodProbe ==
    /\ C10_ProbeReachesHost
    /\ ~C30_Malformed
    /\ last.msg.elem
    /\ last.msg.types = WSD_TYPE_DEVICE
    /\ last.msg.scopes = Absent
    /\ ~last.in_window

\* C30: a datagram that cannot be parsed, or lacks Header, MessageID, Action
\* or Body, invokes no handler, builds no reply and raises nothing; and the
\* datagram received right after it is processed as usual (a Probe that
\* qualifies for a reply gets its one ProbeMatches).
C30_MalformedRejected ==
    /\ [](C30_Malformed =>
            /\ last.disp = <<>>
            /\ last.enq = <<>>
            /\ last.fetch = <<>>
            /\ ~last.raised)
    /\ [][(C30_Malformed /\ C30_GoodProbe') =>
            (/\ Len(last.disp) = 1
             /\ Len(last.enq) = 1
             /\ last.enq[1].msg.action = WSD_PROBE_MATCH
             /\ last.enq[1].msg.relates_to = last.msg.msg_id)']_vars

\* C30 witness: an envelope without Body, its MessageID already recorded,
\* rejected after an earlier Probe was answered
C30_Witness ==
    /\ C30_Malformed
    /\ last.msg.wellformed /\ last.msg.header /\ last.msg.action = WSD_PROBE
    /\ ~last.msg.body
    /\ ~last.in_window
    /\ \E k \in 1 .. Len(known_messages) : known_messages[k] = last.msg.msg_id
    /\ last.disp = <<>> /\ last.enq = <<>>
    /\ \E i \in DOMAIN replied : replied[i] > 0

\* C33 as stated: every reply built for a request has To =
\* urn:schemas-xmlsoap-org:ws:2005:04:discovery/role/anonymous and RelatesTo
\* equal to the request's MessageID.
C33_ReplyToDiscoveryAnon ==
    last.op = "recv" =>
        \A k \in 1 .. Len(last.enq) :
            /\ last.enq[k].msg.to =
                  "urn:schemas-xmlsoap-org:ws:2005:04:discovery/role/anonymous"
            /\ last.enq[k].msg.relates_to = last.msg.msg_id

\* C33, amended: every reply built for a request has To =
\* http://schemas.xmlsoap.org/ws/2004/08/addressing/role/anonymous and
\* RelatesTo equal to the request's MessageID.
C33_ReplyToAnon ==
    last.op = "recv" =>
        \A k \in 1 .. Len(last.enq) :
            /\ last.enq[k].msg.to =
                  "http://schemas.xmlsoap.org/ws/2004/08/addressing/role/anonymous"
            /\ last.enq[k].msg.relates_to = last.msg.msg_id
            /\ last.msg.msg_id # NoId

\* C33 witness: a ResolveMatches built for a Resolve
C33_Witness ==
    /\ last.op = "recv"
    /\ last.msg.action = WSD_RESOLVE
    /\ Len(last.enq) = 1
    /\ last.enq[1].msg.action = WSD_RESOLVE_MATCH
    /\ last.enq[1].msg.to = WSA_ANON
    /\ last.enq[1].msg.relates_to = last.msg.msg_id

\* C36: a datagram that is handed to a role and dropped without reaching an
\* action handler, because it lacks Action or Body or no handler is
\* registered for its action, does not put its MessageID into the window of
\* known MessageIDs.
C36_DroppedNotRecorded ==
    ( /\ last.op = "recv"
      /\ last.calls # <<>>
      /\ last.msg.wellformed /\ last.msg.header /\ last.msg.msg_id # NoId
      /\ ~last.in_window
      /\ last.disp = <<>> )
    => ~IsKnown(last.msg.msg_id, known_messages)

\* the envelope of the datagram reaches the host's Resolve handler
C11_ResolveReachesHost ==
    /\ last.op = "recv"
    /\ last.sock = "recv_socket"
    /\ last.msg.action = WSD_RESOLVE

C11_NamesHost == last.msg.elem /\ last.msg.endpoint = OwnUrn

\* C11: the host replies to a Resolve only if its EndpointReference/Address
\* is the host's own URN, and does reply to such a Resolve that the engine
\* accepts (one ResolveMatches for the own endpoint, RelatesTo the Resolve,
\* unicast to the source); a Resolve naming another endpoint or none builds
\* no message and changes nothing but the window of known MessageIDs.
C11_ResolveReply ==
    /\ [](C11_ResolveReachesHost =>
            /\ last.enq # <<>> => C11_NamesHost
            /\ ( /\ C11_NamesHost
                 /\ last.msg.wellformed /\ last.msg.header /\ last.msg.body
                 /\ last.msg.msg_id # NoId
                 /\ ~last.in_window ) =>
                    /\ Len(last.enq) = 1
                    /\ last.enq[1].msg.action = WSD_RESOLVE_MATCH
                    /\ last.enq[1].msg.body.kind = "ResolveMatches"
                    /\ last.enq[1].msg.body.endpoint = OwnUrn
                    /\ last.enq[1].msg.relates_to = last.msg.msg_id
                    /\ last.enq[1].address = last.src)
    /\ [][ ( /\ last'.op = "recv"
             /\ last'.sock = "recv_socket"
             /\ last'.msg.action = WSD_RESOLVE
             /\ ~(last'.msg.elem /\ last'.msg.endpoint = OwnUrn) ) =>
               /\ last'.enq = <<>>
               /\ last'.fetch = <<>>
               /\ message_number' = message_number
               /\ uuid_ctr' = uuid_ctr
               /\ sent' = sent
               /\ registry' = registry
               /\ probes' = probes
               /\ \/ known_messages' = known_messages
                  \/ /\ ~last'.in_window
                     /\ known_messages'[Len(known_messages')] = last'.msg.msg_id
                     /\ \A k \in 1 .. Len(known_messages') - 1 :
                           known_messages'[k] =
                             known_messages[k + Len(known_messages) + 1
                                              - Len(known_messages')] ]_vars

\* C11 witness: a Resolve for the own URN answered, after one for another
\* endpoint was not
C11_Witness ==
    /\ C11_ResolveReachesHost
    /\ C11_NamesHost
    /\ last.msg.msg_id = 2
    /\ Len(last.enq) = 1
    /\ last.enq[1].msg.action = WSD_RESOLVE_MATCH
    /\ replied[1] = 0
    /\ known_messages = <<1, 2>>

(***************************************************************************)
(* Properties of the client role on one endpoint (SpecClient).             *)
(***************************************************************************)
\* C9: a ProbeMatches whose RelatesTo is absent or not a key of the
\* client's probes starts no metadata exchange and sends no Resolve.
C9_UnknownProbeMatchIgnored ==
    ( /\ last.op = "recv"
      /\ last.msg.action = WSD_PROBE_MATCH
      /\ (last.msg.relates_to = NoId \/ last.msg.relates_to \notin DOMAIN probes) )
    => /\ last.fetch = <<>>
       /\ \A k \in 1 .. Len(last.enq) : last.enq[k].msg.action # WSD_RESOLVE

\* C9 witness: a ProbeMatches with XAddrs answering somebody else's probe
\* reached handle_probe_match and nothing followed
C9_Witness ==
    /\ last.op = "recv"
    /\ last.msg.action = WSD_PROBE_MATCH
    /\ last.msg.relates_to = ForeignId
    /\ last.msg.xaddrs = <<Url1>>
    /\ \E k \in 1 .. Len(last.disp) : last.disp[k][1] = "client"
    /\ last.fetch = <<>>
    /\ last.enq = <<>>

\* C26: a ProbeMatches whose RelatesTo names a probe the client sent more
\* than 8 s ago starts no metadata exchange and sends no Resolve.
C26_ExpiredProbeRejected ==
    ( /\ last.op = "recv"
      /\ last.msg.action = WSD_PROBE_MATCH
      /\ last.msg.relates_to \in DOMAIN probes
      /\ now - probes[last.msg.relates_to] > 8 )
    => /\ last.fetch = <<>>
       /\ last.enq = <<>>

\* the client's handler for the datagram's action was invoked
C27_ClientHandled ==
    /\ last.op = "recv"
    /\ \E k \in 1 .. Len(last.disp) :
          last.disp[k] = <<"client", last.msg.action, last.msg.msg_id>>

\* the datagram has no XAddrs element, or an empty one
C27_NoXAddrs ==
    ~last.msg.elem \/ ~last.msg.has_xaddrs \/ last.msg.xaddrs = <<>>

\* C27: when the client handles a Hello, or a ProbeMatches that answers one
\* of its probes, and the message has no XAddrs, the client enqueues exactly
\* one message, a Resolve to the discovery multicast address with four
\* sends, naming the announced endpoint, and fetches nothing.
C27_ResolveForBareAnnouncement ==
    ( /\ C27_ClientHandled
      /\ \/ last.msg.action = WSD_HELLO
         \/ last.msg.action = WSD_PROBE_MATCH /\ last.msg.relates_to \in DOMAIN probes
      /\ C27_NoXAddrs )
    => /\ last.fetch = <<>>
       /\ Len(last.enq) = 1
       /\ last.enq[1].msg.action = WSD_RESOLVE
       /\ last.enq[1].msg.to = WSA_DISCOVERY
       /\ last.enq[1].msg.body.kind = "Resolve"
       /\ last.enq[1].address = MulticastAddress(m_family, 2)
       /\ last.enq[1].msg_count = MULTICAST_UDP_REPEAT
       /\ (last.msg.elem /\ last.msg.endpoint # Absent =>
             last.enq[1].msg.body.endpoint = last.msg.endpoint)

C27_Witness ==
    /\ C27_ClientHandled
    /\ last.msg.action = WSD_HELLO
    /\ last.msg.endpoint = PeerUrn
    /\ ~last.msg.has_xaddrs
    /\ Len(last.enq) = 1
    /\ last.enq[1].msg.action = WSD_RESOLVE
    /\ last.enq[1].msg.body.endpoint = PeerUrn
    /\ last.fetch = <<>>

\* C28: when the client handles a ProbeMatches that answers one of its
\* probes and whose XAddrs lists several URLs, it makes one metadata
\* fetch, from the first URL of the list.
C28_FirstXAddrFetched ==
    ( /\ C27_ClientHandled
      /\ last.msg.action = WSD_PROBE_MATCH
      /\ last.msg.relates_to \in DOMAIN probes
      /\ last.msg.elem /\ last.msg.has_xaddrs
      /\ Len(Split(last.msg.xaddrs)) > 1 )
    => /\ Len(last.fetch) = 1
       /\ last.fetch[1].xaddr = <<Head(Split(last.msg.xaddrs))>>

\* the client's ResolveMatches handler was invoked
C29_ResolveMatchHandled ==
    C27_ClientHandled /\ last.msg.action = WSD_RESOLVE_MATCH

\* the message carries an endpoint address and XAddrs, neither empty
C29_Complete ==
    /\ last.msg.elem
    /\ last.msg.endpoint \notin {Absent, ""}
    /\ last.msg.has_xaddrs /\ last.msg.xaddrs # <<>>

\* C29 as stated: a ResolveMatches the client handles starts a metadata
\* fetch iff it carries both an endpoint and XAddrs, whatever its RelatesTo.
C29_FetchIffComplete ==
    C29_ResolveMatchHandled =>
        /\ C29_Complete <=> Len(last.fetch) = 1
        /\ ~C29_Complete => last.fetch = <<>> /\ last.enq = <<>>

\* C29, amended: a ResolveMatches the client handles starts a metadata
\* fetch iff it carries both an endpoint and XAddrs and the XAddrs text,
\* stripped, starts with http:// or https://, whatever its RelatesTo;
\* otherwise nothing is fetched and nothing is enqueued.
C29_FetchIffCompleteHttp ==
    C29_ResolveMatchHandled =>
        /\ ( /\ C29_Complete
             /\ Strip(last.msg.xaddrs) # <<>>
             /\ IsHttpUrl(Head(Strip(last.msg.xaddrs))) )
           <=> Len(last.fetch) = 1
        /\ Len(last.fetch) = 1 =>
             /\ last.fetch[1].endpoint = last.msg.endpoint
             /\ last.fetch[1].xaddr = Strip(last.msg.xaddrs)
        /\ Len(last.fetch) <= 1
        /\ last.enq = <<>>

C29_Witness ==
    /\ C29_ResolveMatchHandled
    /\ last.msg.relates_to = ForeignId
    /\ last.msg.endpoint = PeerUrn
    /\ Len(last.fetch) = 1
    /\ last.fetch[1].xaddr = <<Url1>>
    /\ probes # <<>>
    /\ ForeignId \notin DOMAIN probes

\* the handlers registered for the socket the datagram was read from, in
\* registration order: the host registers with the receive socket, then the
\* client with the multicast-send and the receive socket
C32_Registered ==
    IF last.sock = "recv_socket"
    THEN (IF args.no_host THEN <<>> ELSE <<"host">>)
         \o (IF args.discovery THEN <<"client">> ELSE <<>>)
    ELSE IF last.sock = "mc_send_socket"
    THEN (IF args.discovery THEN <<"client">> ELSE <<>>)
    ELSE <<>>

\* C32: a datagram read from a socket of the endpoint is handed to every
\* handler registered for that socket, in registration order, and to no
\* other handler.
C32_HandedToAll ==
    last.op = "recv" => last.calls = C32_Registered

(***************************************************************************)
(* Properties of the address monitor (SpecMon).                            *)
(***************************************************************************)
HasMep(t) == \E k \in 1 .. Len(mchs) : meps[mchs[k]].triple = t

\* C1: the monitor's endpoint list never holds two endpoints for one
\* (family, address, interface), and an accepted add for an address that
\* has an endpoint changes nothing.
C1_OneMepPerAddress ==
    /\ [](\A i, j \in 1 .. Len(mchs) :
             i # j => meps[mchs[i]].triple # meps[mchs[j]].triple)
    /\ [][(ev'.op = "add" /\ ev'.accepted /\ HasMep(ev'.triple)) =>
             UNCHANGED <<active, mchs, http_servers, teardown_tasks,
                         WSDHost_instances, WSDClient_instances, meps, tasks,
                         message_number, uuid_ctr, sent>>]_vars

\* C1 witness: with two endpoints in the list, the address of the first
\* was added again and accepted
C1_Witness ==
    /\ ev.op = "add"
    /\ ev.accepted
    /\ ev.mep = 1
    /\ mchs = <<1, 2>>
    /\ Len(meps) = 2

\* C7: every host message built carries the counter's value and raises it
\* by one, so the MessageNumbers are 0, 1, 2, ... in the order built, over
\* all hosts; the InstanceId is the same in all of them.
C7_MessageNumbers ==
    /\ message_number = Len(sent)
    /\ \A k \in 1 .. Len(sent) : sent[k].message_number = k - 1
    /\ \A j, k \in 1 .. Len(sent) :
          /\ j < k => sent[j].message_number < sent[k].message_number
          /\ sent[j].instance_id = sent[k].instance_id

\* C7 witness: Hellos of two hosts, a Bye, a ProbeMatches and a
\* ResolveMatches have been built
C7_Witness ==
    /\ \E j, k \in 1 .. Len(sent) :
          /\ sent[j].action = WSD_HELLO
          /\ sent[k].action = WSD_HELLO
          /\ sent[j].body.xaddrs # sent[k].body.xaddrs
    /\ \E k \in 1 .. Len(sent) : sent[k].action = WSD_BYE
    /\ \E k \in 1 .. Len(sent) : sent[k].action = WSD_PROBE_MATCH
    /\ \E k \in 1 .. Len(sent) : sent[k].action = WSD_RESOLVE_MATCH

\* C8: after an accepted delete of an address whose add was accepted while
\* the monitor has been active since, the address has no endpoint in the
\* list, no host, client or HTTP server of the endpoint the add left it with
\* remains, and that endpoint's sockets are closed.
C8_AddDeleteLeavesNothing ==
    (ev.op = "delete" /\ ev.accepted /\ ev.mep # 0) =>
        /\ ~HasMep(ev.triple)
        /\ ~InList(WSDHost_instances, ev.mep)
        /\ ~InList(WSDClient_instances, ev.mep)
        /\ ~InList(http_servers, ev.mep)
        /\ ~meps[ev.mep].open

\* the monitor is stopped and no scheduling task or callback is outstanding
C16_StoppedAndQuiet ==
    /\ ~active
    /\ \A k \in 1 .. Len(tasks) : tasks[k].done /\ tasks[k].callback # "scheduled"

\* C16: once a stop command has been processed and every pending
\* retransmission task has completed, the monitor's endpoint list is empty
\* and the sockets of every endpoint are closed, in every configuration.
C16_StopClosesAll ==
    C16_StoppedAndQuiet =>
        /\ mchs = <<>>
        /\ \A id \in 1 .. Len(meps) : ~meps[id].open

\* C17: after a shutdown by signal of an active monitor, the Byes' tasks
\* have completed, the HTTP servers are closed, and every endpoint has its
\* sockets closed and has left the monitor's list.
C17_ShutdownClosesMeps ==
    (ev.op = "shutdown" /\ ev.accepted) =>
        /\ \A k \in 1 .. Len(teardown_tasks) : tasks[teardown_tasks[k]].done
        /\ http_servers = <<>>
        /\ mchs = <<>>
        /\ \A id \in 1 .. Len(meps) : ~meps[id].open

\* C18: no endpoint has its sockets closed while the task retransmitting a
\* host's Bye on that endpoint is still pending.
C18_NoCloseWhileByePending ==
    \A k \in 1 .. Len(tasks) :
        (tasks[k].kind = "bye" /\ ~tasks[k].done) => meps[tasks[k].mch].open

\* C19: a teardown of the active monitor (stop or shutdown, none being in
\* progress) enqueues a Bye for every host role instance that exists, and
\* the Bye's task is among the tasks the teardown waits for.
C19_ByeForEveryHost ==
    [][ ( /\ ev'.op \in {"stop", "shutdown"}
          /\ ev'.accepted
          /\ teardown_tasks = <<>> ) =>
            \A h \in 1 .. Len(WSDHost_instances) :
                /\ meps'[WSDHost_instances[h]].host = "tearing_down"
                /\ \E j \in 1 .. Len(teardown_tasks') :
                      /\ tasks'[teardown_tasks'[j]].mch = WSDHost_instances[h]
                      /\ tasks'[teardown_tasks'[j]].kind = "bye" ]_vars

\* the monitor is inactive and has never created an endpoint
C20_Dormant == args.no_autostart /\ ~active /\ meps = <<>>

\* C20: with no_autostart the monitor is inactive after construction and
\* without it active (enumerating); under no_autostart, as long as no
\* start is processed, the monitor stays inactive, every address add is
\* ignored, no endpoint is created and no message is built or sent.
C20_NoAutostart ==
    /\ [](ev.op = "init" =>
            /\ active <=> ~args.no_autostart
            /\ meps = <<>> /\ mchs = <<>> /\ uuid_ctr = 0 /\ sent = <<>>)
    /\ [][ (C20_Dormant /\ ev'.op # "start") =>
            /\ ~active'
            /\ meps' = <<>> /\ mchs' = <<>>
            /\ uuid_ctr' = uuid_ctr /\ sent' = sent
            /\ (ev'.op = "add" => ~ev'.accepted) ]_vars

C20_Witness ==
    /\ args.no_autostart /\ ~active /\ meps = <<>> /\ uuid_ctr = 0
    /\ ev.op = "add" /\ ~ev.accepted

\* C21: every endpoint the monitor has created is for an address that
\* passes the filter: not IPv4 with first byte 127, not IPv6 with first
\* two bytes other than fe 80, of the one family an --ipv4only or
\* --ipv6only allows, and, with an --interface list, with its interface
\* name or its address text in the list.
C21_AddressFilter ==
    \A id \in 1 .. Len(meps) :
        LET t == meps[id].triple
        IN /\ ~(t.family = AF_INET /\ Raw[t.address][1] = 127)
           /\ ~(t.family = AF_INET6
                 /\ <<Raw[t.address][1], Raw[t.address][2]>> # <<254, 128>>)
           /\ ~(args.ipv4only /\ t.family = AF_INET6)
           /\ ~(args.ipv6only /\ t.family = AF_INET)
           /\ (args.interface # {} =>
                 t.iface \in args.interface \/ t.address \in args.interface)

C21_Witness ==
    /\ args.interface # {}
    /\ ev.op = "add" /\ ev.accepted
    /\ ev.triple.iface \notin args.interface
    /\ ev.triple.address \in args.interface
    /\ \E id \in 1 .. Len(meps) : meps[id].triple = ev.triple /\ meps[id].open

\* how often x occurs in a list
C22_Times(list, x) == Cardinality({ k \in 1 .. Len(list) : list[k] = x })

\* C22: an accepted add that creates an endpoint attaches a host role iff
\* no_host is unset, an HTTP server iff no_host and no_http are both unset
\* and a client role iff discovery is set, each at most once and nothing
\* else.
C22_RolesByOptions ==
    [][ (ev'.op = "add" /\ ev'.accepted /\ Len(meps') = Len(meps) + 1) =>
          LET id == Len(meps')
              host == ~args.no_host
              http == ~args.no_host /\ ~args.no_http
              client == args.discovery
          IN /\ meps'[id].triple = ev'.triple /\ ev'.mep = id
             /\ meps'[id].host = (IF host THEN "up" ELSE "none")
             /\ meps'[id].client = (IF client THEN "up" ELSE "none")
             /\ C22_Times(WSDHost_instances', id) = (IF host THEN 1 ELSE 0)
             /\ C22_Times(WSDClient_instances', id) = (IF client THEN 1 ELSE 0)
             /\ C22_Times(http_servers', id) = (IF http THEN 1 ELSE 0)
             /\ meps'[id].recv = (IF host THEN <<"host">> ELSE <<>>)
                                  \o (IF client THEN <<"client">> ELSE <<>>)
             /\ meps'[id].mc_send = (IF client THEN <<"client">> ELSE <<>>)
             /\ WSDHost_instances' = IF host THEN Append(WSDHost_instances, id)
                                     ELSE WSDHost_instances
             /\ WSDClient_instances' = IF client THEN Append(WSDClient_instances, id)
                                       ELSE WSDClient_instances
             /\ http_servers' = IF http THEN Append(http_servers, id)
                                ELSE http_servers ]_vars

C22_Witness ==
    /\ ev.op = "add" /\ ev.accepted /\ ev.mep = Len(meps)
    /\ args.no_host /\ ~args.no_http /\ args.discovery
    /\ meps[ev.mep].client = "up" /\ meps[ev.mep].host = "none"
    /\ http_servers = <<>>

C25_HellosOf(t) ==
    { k \in 1 .. Len(sent) :
        /\ sent[k].action = WSD_HELLO
        /\ sent[k].to = WSA_DISCOVERY
        /\ sent[k].body.xaddrs =
              HostXAddrs(Ctx(0, t.family, t.address, t.iface, <<>>, 0)) }

\* the endpoints created so far for t with a host role
C25_HostsOf(t) ==
    { id \in 1 .. Len(meps) : meps[id].triple = t /\ meps[id].host # "none" }

\* C25: there is exactly one Hello per endpoint created with a host role;
\* the step that creates the endpoint builds it and nothing else from the
\* host; and whenever a datagram is dispatched on an endpoint that has a
\* host, that endpoint's Hello has been built before.
C25_HelloFirst ==
    /\ [](\A t \in Addresses :
            Cardinality(C25_HellosOf(t)) = Cardinality(C25_HostsOf(t)))
    /\ [][ (ev'.op = "add" /\ Len(meps') = Len(meps) + 1 /\ ~args.no_host) =>
            /\ Len(sent') = Len(sent) + 1
            /\ SubSeq(sent', 1, Len(sent)) = sent
            /\ sent'[Len(sent')].action = WSD_HELLO
            /\ sent'[Len(sent')].body.xaddrs =
                  HostXAddrs(Ctx(0, ev'.triple.family, ev'.triple.address,
                                 ev'.triple.iface, <<>>, 0)) ]_vars
    /\ [][ (ev'.op = "recv" /\ meps[ev'.mep].host # "none") =>
            C25_HellosOf(meps[ev'.mep].triple) # {} ]_vars

C25_Witness ==
    /\ ev.op = "recv" /\ meps[ev.mep].host = "up"
    /\ Len(sent) = 2
    /\ sent[1].action = WSD_HELLO /\ sent[1].message_number = 0
    /\ sent[2].action \in {WSD_PROBE_MATCH, WSD_RESOLVE_MATCH}

\* C37: every host and client role instance in the process-wide lists
\* refers to an endpoint that is in the monitor's endpoint list and whose
\* sockets are open.
C37_RolesOnOpenMeps ==
    /\ \A h \in 1 .. Len(WSDHost_instances) :
          /\ InList(mchs, WSDHost_instances[h])
          /\ meps[WSDHost_instances[h]].open
    /\ \A c \in 1 .. Len(WSDClient_instances) :
          /\ InList(mchs, WSDClient_instances[c])
          /\ meps[WSDClient_instances[c]].open

\* C38: while the monitor is active again after a stop (a Bye task of that
\* stop exists), every address whose add was accepted since the start and
\* that was not deleted since has an endpoint in the list, with open sockets
\* and, unless no_host, a host role attached.
C38_RestartedAddressServed ==
    \A t \in Addresses :
        ( /\ active
          /\ \E j \in 1 .. Len(tasks) : tasks[j].kind = "bye"
          /\ added[t] # 0 ) =>
            \E k \in 1 .. Len(mchs) :
                /\ meps[mchs[k]].triple = t
                /\ meps[mchs[k]].open
                /\ ~args.no_host => InList(WSDHost_instances, mchs[k])

\* C39: a datagram that arrives on an endpoint whose host role is tearing
\* down (its Bye has been enqueued) makes that host enqueue nothing: no
\* message is built and no scheduling task is created.
C39_QuietAfterBye ==
    [][ (ev'.op = "recv" /\ meps[ev'.mep].host = "tearing_down") =>
            /\ sent' = sent
            /\ tasks' = tasks ]_vars

(***************************************************************************)
(* Properties of the client's device registry (SpecRegistry).              *)
(***************************************************************************)
\* a Hello on the receive socket that no window entry makes a duplicate and
\* whose XAddrs hold an address usable on the endpoint's family
C12_HelloWithXAddrs ==
    /\ last.op = "recv"
    /\ last.sock = "recv_socket"
    /\ last.msg.action = WSD_HELLO
    /\ last.msg.has_xaddrs
    /\ ~last.in_window
    /\ (m_family = AF_INET \/ last.msg.xaddrs = <<Url2>>)

\* C12: a Hello carrying XAddrs that arrives on the receive socket of an
\* endpoint with a client role makes that client perform a metadata
\* exchange, whether or not a host role is attached to the same endpoint.
C12_HelloFetched ==
    (C12_HelloWithXAddrs /\ ClientAttached) =>
        /\ Len(last.fetch) = 1
        /\ last.fetch[1].endpoint = last.msg.endpoint

\* the client's Bye handler was called for the datagram
C13_ByeProcessed ==
    /\ last.op = "recv"
    /\ last.msg.action = WSD_BYE
    /\ \E k \in 1 .. Len(last.disp) : last.disp[k][1] = "client"

\* C13: once the client has processed a Bye naming a device UUID, the
\* registry has no entry for that UUID and every other entry is as it was;
\* a Bye for a UUID without an entry leaves the registry as it was.
C13_ByeRemovesDevice ==
    /\ [](C13_ByeProcessed =>
            /\ last.msg.endpoint \in {PeerUrn, PeerUuid} =>
                  "22222222-aaaa-3333-4444-555555555555" \notin DOMAIN registry
            /\ last.msg.endpoint = OtherUrn =>
                  "33333333-bbbb-3333-4444-555555555555" \notin DOMAIN registry)
    /\ [][ ( /\ last'.op = "recv"
             /\ last'.msg.action = WSD_BYE
             /\ \E k \in 1 .. Len(last'.disp) : last'.disp[k][1] = "client"
             /\ last'.msg.endpoint \in {PeerUrn, PeerUuid, OtherUrn} ) =>
               LET u == IF last'.msg.endpoint = OtherUrn
                        THEN "33333333-bbbb-3333-4444-555555555555"
                        ELSE "22222222-aaaa-3333-4444-555555555555"
               IN /\ DOMAIN registry' = DOMAIN registry \ {u}
                  /\ \A v \in DOMAIN registry' : registry'[v] = registry[v]
                  /\ u \notin DOMAIN registry => registry' = registry ]_vars

\* C13 witness: with two devices registered, the Bye of one removed it and
\* left the other
C13_Witness ==
    /\ C13_ByeProcessed
    /\ last.msg.endpoint = PeerUrn
    /\ last.removed = {PeerUuid}
    /\ DOMAIN registry = {OtherUuid}
    /\ registry[OtherUuid].last_seen = 0

\* the client's Bye handler was called with an endpoint address that is
\* missing, empty or not a UUID
C40_BadBye ==
    /\ C13_ByeProcessed
    /\ last.msg.endpoint \in {Absent, "", "urn:uuid:2222"}

\* C40: a Bye whose endpoint address is missing or is not a valid UUID
\* leaves the device registry as it was, and the datagram read after it is
\* handled as usual: a Hello or Bye with a MessageID not in the window,
\* handed to the client alone, reaches the client's action handler.
C40_BadByeHarmless ==
    /\ [][ ( /\ last'.op = "recv"
             /\ last'.msg.action = WSD_BYE
             /\ \E k \in 1 .. Len(last'.disp) : last'.disp[k][1] = "client"
             /\ last'.msg.endpoint \in {Absent, "", "urn:uuid:2222"} ) =>
               registry' = registry ]_vars
    /\ [][ ( /\ C40_BadBye
             /\ last'.op = "recv"
             /\ last'.calls = <<"client">>
             /\ ~last'.in_window ) =>
               last'.disp = <<<<"client", last'.msg.action, last'.msg.msg_id>>>> ]_vars

\* C40 witness: a Bye without endpoint address handled while a device is
\* registered, which stays
C40_Witness ==
    /\ C40_BadBye
    /\ last.msg.endpoint = Absent
    /\ last.raised
    /\ last.removed = {}
    /\ PeerUuid \in DOMAIN registry

\* the two peers' registry keys, and the spellings of the first peer's
\* endpoint address that differ in letter case, prefix or braces
C14_Keys ==
    {"22222222-aaaa-3333-4444-555555555555", "33333333-bbbb-3333-4444-555555555555"}
C14_Variants ==
    {"urn:uuid:22222222-aaaa-3333-4444-555555555555",
     "22222222-aaaa-3333-4444-555555555555",
     "urn:uuid:22222222-AAAA-3333-4444-555555555555",
     "22222222-AAAA-3333-4444-555555555555",
     "{22222222-aaaa-3333-4444-555555555555}"}

C35_EntriesComplete ==
    \A u \in DOMAIN registry :
        /\ registry[u].last_seen # NoTime
        /\ registry[u].addresses # {}

(***************************************************************************)
(* Properties of the HTTP metadata server (SpecHttp).                      *)
(***************************************************************************)
\* C15: a POST whose path is not "/" followed by the own UUID gets status
\* 404 as the first status written; a POST whose Content-Type header is
\* missing or does not begin with application/soap+xml gets a status 400,
\* which is the first status written when the path is the own one; no 404
\* is written for the own path.
C15_PostRejected ==
    last.op = "post" =>
        /\ last.req.path # <<"/", "11111111-2222-3333-4444-555555555555">> =>
              (last.status # <<>> /\ last.status[1] = 404)
        /\ last.req.path = <<"/", "11111111-2222-3333-4444-555555555555">> =>
              (\A k \in 1 .. Len(last.status) : last.status[k] # 404)
        /\ ( \/ ~last.req.has_ct
             \/ last.req.ct = <<>>
             \/ last.req.ct[1] # "application/soap+xml" ) =>
              /\ \E k \in 1 .. Len(last.status) : last.status[k] = 400
              /\ last.req.path = <<"/", "11111111-2222-3333-4444-555555555555">> =>
                    last.status[1] = 400

\* C15 witness: a POST to the UUID of another host, without Content-Type
C15_Witness ==
    /\ last.op = "post"
    /\ last.req.path = <<"/", PeerUuid>>
    /\ ~last.req.has_ct
    /\ last.status[1] = NOT_FOUND
    /\ \E k \in 1 .. Len(last.status) : last.status[k] = BAD_REQUEST

\* a POST of a well-formed Get envelope to the own path, with a SOAP
\* Content-Type and a Content-Length
C31_ValidGet ==
    /\ last.op = "post"
    /\ PathIsOwn(last.req.path)
    /\ ~ContentTypeInvalid(last.req)
    /\ last.req.has_cl
    /\ last.msg.wellformed /\ last.msg.header /\ last.msg.body
    /\ last.msg.msg_id # NoId
    /\ last.msg.action = WSD_GET

\* C31: a valid Get posted over HTTP is handed to its handler and answered
\* with 200 whether or not its MessageID is in the window of known
\* MessageIDs (so also when the same Get was posted before), and no POST
\* changes that window.
C31_HttpBypassesDedup ==
    /\ [](C31_ValidGet =>
            /\ last.status = <<OK>>
            /\ last.disp = <<<<"http", WSD_GET, last.msg.msg_id>>>>)
    /\ [][last'.op = "post" => known_messages' = known_messages]_vars

\* C31 witness: a Get whose MessageID is in the window, a datagram with that
\* MessageID having been handled before, answered with 200
C31_Witness ==
    /\ C31_ValidGet
    /\ last.in_window
    /\ handled[last.msg.msg_id] = 2
    /\ last.status = <<OK>>

\* the request is one do_POST answers with send_error for its path or its
\* Content-Type
C34_Rejected ==
    /\ last.op = "post"
    /\ ~PathIsOwn(last.req.path) \/ ContentTypeInvalid(last.req)

\* C34: every POST gets exactly one status line, and a POST rejected for its
\* path or its Content-Type reaches no handler of the message engine and
\* gets no 200.
C34_OneStatus ==
    /\ last.op = "post" => Len(last.status) = 1
    /\ C34_Rejected =>
          /\ last.disp = <<>>
          /\ \A k \in 1 .. Len(last.status) : last.status[k] # OK

====
